---- MODULE Spec2Model ----
(***************************************************************************)
(* First-aid RAG assistant: the query pipeline of backend/RAG/rag.py, the  *)
(* /api/query endpoint of backend/main.py and the conversation utilities   *)
(* of backend/api/conversation.py, as state machines.                      *)
(*                                                                         *)
(* Text is a sequence of one-character strings.  A character that cannot   *)
(* be written in a TLA+ string is named: "BACKTICK", "U2022" (the bullet), *)
(* "U26A0" "UFE0F" (the warning sign), "U00B0" (the degree sign).          *)
(* Scores are hundredths: 0.60 is 60, 0.02 is 2.                           *)
(***************************************************************************)
EXTENDS Integers, Sequences, FiniteSets, TLC

(***************************************************************************)
(* Python str and re operations used by the code.                          *)
(***************************************************************************)

\* str.split() and \s: the ASCII whitespace characters.
Whitespace == {" ", "\n", "\t", "\r"}

IsSpace(c) == c \in Whitespace

UpperToLower ==
    [c \in {"A","B","C","D","E","F","G","H","I","J","K","L","M",
            "N","O","P","Q","R","S","T","U","V","W","X","Y","Z"} |->
        CASE c = "A" -> "a" [] c = "B" -> "b" [] c = "C" -> "c" [] c = "D" -> "d"
          [] c = "E" -> "e" [] c = "F" -> "f" [] c = "G" -> "g" [] c = "H" -> "h"
          [] c = "I" -> "i" [] c = "J" -> "j" [] c = "K" -> "k" [] c = "L" -> "l"
          [] c = "M" -> "m" [] c = "N" -> "n" [] c = "O" -> "o" [] c = "P" -> "p"
          [] c = "Q" -> "q" [] c = "R" -> "r" [] c = "S" -> "s" [] c = "T" -> "t"
          [] c = "U" -> "u" [] c = "V" -> "v" [] c = "W" -> "w" [] c = "X" -> "x"
          [] c = "Y" -> "y" [] c = "Z" -> "z"]

\* str.lower()
Lower(s) ==
    [i \in 1..Len(s) |-> IF s[i] \in DOMAIN UpperToLower THEN UpperToLower[s[i]] ELSE s[i]]

\* k in s
Contains(s, k) ==
    \E i \in 1..(Len(s) - Len(k) + 1) : SubSeq(s, i, i + Len(k) - 1) = k

\* s.find(k) + 1 for a k that occurs in s
FirstIndex(s, k) ==
    CHOOSE i \in 1..(Len(s) - Len(k) + 1) :
        /\ SubSeq(s, i, i + Len(k) - 1) = k
        /\ \A j \in 1..(i - 1) : SubSeq(s, j, j + Len(k) - 1) # k

\* s.replace(old, new) for a non-empty old: every non-overlapping occurrence, left to right
RECURSIVE Replace(_, _, _)
Replace(s, old, new) ==
    IF ~Contains(s, old) THEN s
    ELSE LET i == FirstIndex(s, old)
         IN  SubSeq(s, 1, i - 1) \o new \o Replace(SubSeq(s, i + Len(old), Len(s)), old, new)

\* s.strip()
Strip(s) ==
    IF \A i \in 1..Len(s) : IsSpace(s[i]) THEN <<>>
    ELSE LET a == CHOOSE i \in 1..Len(s) : ~IsSpace(s[i]) /\ \A j \in 1..(i - 1) : IsSpace(s[j])
             b == CHOOSE i \in 1..Len(s) : ~IsSpace(s[i]) /\ \A j \in (i + 1)..Len(s) : IsSpace(s[j])
         IN  SubSeq(s, a, b)

\* s.split(): the maximal runs of non-whitespace characters, in order
RECURSIVE Split(_)
Split(s) ==
    IF \A i \in 1..Len(s) : IsSpace(s[i]) THEN <<>>
    ELSE LET a == CHOOSE i \in 1..Len(s) : ~IsSpace(s[i]) /\ \A j \in 1..(i - 1) : IsSpace(s[j])
             b == CHOOSE i \in a..Len(s) :
                      /\ \A j \in a..i : ~IsSpace(s[j])
                      /\ (i = Len(s) \/ IsSpace(s[i + 1]))
         IN  <<SubSeq(s, a, b)>> \o Split(SubSeq(s, b + 1, Len(s)))

\* sep.join(words)
RECURSIVE Join(_, _)
Join(words, sep) ==
    IF words = <<>> THEN <<>>
    ELSE IF Len(words) = 1 THEN words[1]
    ELSE words[1] \o sep \o Join(Tail(words), sep)

\* re.sub(r'[?!]+$', '', s) for an s without line breaks
StripTrailingMarks(s) ==
    LET n == CHOOSE i \in 0..Len(s) :
                 /\ \A j \in (i + 1)..Len(s) : s[j] \in {"?", "!"}
                 /\ (i = 0 \/ s[i] \notin {"?", "!"})
    IN  SubSeq(s, 1, n)

\* x in list
InSeq(x, seq) == \E i \in 1..Len(seq) : seq[i] = x

\* list[:n]
Take(seq, n) == SubSeq(seq, 1, IF n < Len(seq) THEN n ELSE Len(seq))

(***************************************************************************)
(* Query processing (FirstAidRAGAssistant).                                *)
(***************************************************************************)

\* self.medical_synonyms, in the order written (dict iteration order)
medical_synonyms == <<
    [term |->
        <<"c","h","o","k","i","n","g">>,
     synonyms |-> <<
        <<"a","i","r","w","a","y"," ","o","b","s","t","r","u","c","t","i","o","n">>,
        <<"b","l","o","c","k","e","d"," ","a","i","r","w","a","y">>,
        <<"c","a","n","n","o","t"," ","b","r","e","a","t","h","e">>,
        <<"f","o","r","e","i","g","n"," ","o","b","j","e","c","t"," ","t","h","r","o","a","t">>
     >>],
    [term |->
        <<"b","l","e","e","d","i","n","g">>,
     synonyms |-> <<
        <<"h","e","m","o","r","r","h","a","g","e">>,
        <<"b","l","o","o","d"," ","l","o","s","s">>,
        <<"c","u","t">>,
        <<"w","o","u","n","d">>,
        <<"l","a","c","e","r","a","t","i","o","n">>
     >>],
    [term |->
        <<"b","u","r","n">>,
     synonyms |-> <<
        <<"s","c","a","l","d">>,
        <<"t","h","e","r","m","a","l"," ","i","n","j","u","r","y">>,
        <<"f","i","r","e"," ","i","n","j","u","r","y">>,
        <<"h","e","a","t"," ","d","a","m","a","g","e">>
     >>],
    [term |->
        <<"h","e","a","d","a","c","h","e">>,
     synonyms |-> <<
        <<"h","e","a","d"," ","p","a","i","n">>,
        <<"m","i","g","r","a","i","n","e">>,
        <<"c","e","p","h","a","l","g","i","a">>
     >>],
    [term |->
        <<"p","o","i","s","o","n","i","n","g">>,
     synonyms |-> <<
        <<"t","o","x","i","c"," ","i","n","g","e","s","t","i","o","n">>,
        <<"o","v","e","r","d","o","s","e">>,
        <<"t","o","x","i","c"," ","e","x","p","o","s","u","r","e">>
     >>],
    [term |->
        <<"h","e","a","r","t"," ","a","t","t","a","c","k">>,
     synonyms |-> <<
        <<"c","a","r","d","i","a","c"," ","a","r","r","e","s","t">>,
        <<"m","y","o","c","a","r","d","i","a","l"," ","i","n","f","a","r","c","t","i","o","n">>,
        <<"c","h","e","s","t"," ","p","a","i","n">>
     >>],
    [term |->
        <<"f","r","a","c","t","u","r","e">>,
     synonyms |-> <<
        <<"b","r","o","k","e","n"," ","b","o","n","e">>,
        <<"b","o","n","e"," ","b","r","e","a","k">>,
        <<"b","o","n","e"," ","f","r","a","c","t","u","r","e">>
     >>],
    [term |->
        <<"s","e","i","z","u","r","e">>,
     synonyms |-> <<
        <<"c","o","n","v","u","l","s","i","o","n">>,
        <<"f","i","t">>,
        <<"e","p","i","l","e","p","t","i","c"," ","e","p","i","s","o","d","e">>
     >>],
    [term |->
        <<"a","l","l","e","r","g","i","c">>,
     synonyms |-> <<
        <<"a","n","a","p","h","y","l","a","x","i","s">>,
        <<"a","l","l","e","r","g","i","c"," ","r","e","a","c","t","i","o","n">>,
        <<"h","y","p","e","r","s","e","n","s","i","t","i","v","i","t","y">>
     >>],
    [term |->
        <<"u","n","c","o","n","s","c","i","o","u","s">>,
     synonyms |-> <<
        <<"u","n","r","e","s","p","o","n","s","i","v","e">>,
        <<"l","o","s","s"," ","o","f"," ","c","o","n","s","c","i","o","u","s","n","e","s","s">>,
        <<"p","a","s","s","e","d"," ","o","u","t">>
     >>],
    [term |->
        <<"b","r","e","a","t","h","i","n","g">>,
     synonyms |-> <<
        <<"r","e","s","p","i","r","a","t","i","o","n">>,
        <<"r","e","s","p","i","r","a","t","o","r","y">>,
        <<"a","i","r","w","a","y">>
     >>],
    [term |->
        <<"s","n","a","k","e">>,
     synonyms |-> <<
        <<"s","e","r","p","e","n","t">>,
        <<"v","e","n","o","m","o","u","s"," ","b","i","t","e">>,
        <<"r","e","p","t","i","l","e"," ","b","i","t","e">>
     >>],
    [term |->
        <<"a","l","c","o","h","o","l">>,
     synonyms |-> <<
        <<"i","n","t","o","x","i","c","a","t","i","o","n">>,
        <<"e","t","h","a","n","o","l">>,
        <<"d","r","u","n","k">>
     >>],
    [term |->
        <<"h","e","a","t">>,
     synonyms |-> <<
        <<"h","y","p","e","r","t","h","e","r","m","i","a">>,
        <<"h","e","a","t"," ","s","t","r","o","k","e">>,
        <<"o","v","e","r","h","e","a","t","i","n","g">>
     >>],
    [term |->
        <<"c","o","l","d">>,
     synonyms |-> <<
        <<"h","y","p","o","t","h","e","r","m","i","a">>,
        <<"f","r","e","e","z","i","n","g">>,
        <<"f","r","o","s","t","b","i","t","e">>
     >>]
>>

\* stop_words of extract_keywords
stop_words == {
    <<"i","s">>,
    <<"a","m">>,
    <<"a","r","e">>,
    <<"w","h","a","t">>,
    <<"h","o","w">>,
    <<"d","o">>,
    <<"t","o">>,
    <<"t","h","e">>,
    <<"a">>,
    <<"a","n">>,
    <<"m","y">>,
    <<"i">>,
    <<"o","n">>,
    <<"f","o","r">>,
    <<"w","i","t","h">>,
    <<"f","r","o","m">>,
    <<"a","n","d">>,
    <<"o","r">>,
    <<"s","h","o","u","l","d">>,
    <<"c","a","n">>,
    <<"w","i","l","l">>,
    <<"h","a","v","i","n","g">>,
    <<"h","a","v","e">>,
    <<"h","a","s">>
}

\* FirstAidRAGAssistant.preprocess_query
preprocess_query(query) ==
    Strip(StripTrailingMarks(Join(Split(Lower(query)), <<" ">>)))

\* expanded_queries[:...] of expand_query: the cut applied to every synonym list and to the result
ExpandLimit == 5

\* the inner loop of expand_query over synonyms[:5] of one term
RECURSIVE ExpandWithSynonyms(_, _, _, _)
ExpandWithSynonyms(expanded_queries, query_lower, term, synonyms) ==
    IF synonyms = <<>> THEN expanded_queries
    ELSE LET expanded == Replace(query_lower, term, Head(synonyms))
         IN  ExpandWithSynonyms(
                 IF InSeq(expanded, expanded_queries) THEN expanded_queries
                 ELSE Append(expanded_queries, expanded),
                 query_lower, term, Tail(synonyms))

\* the outer loop of expand_query over the synonym table, in table order
RECURSIVE ExpandWithTerms(_, _, _)
ExpandWithTerms(expanded_queries, query_lower, table) ==
    IF table = <<>> THEN expanded_queries
    ELSE ExpandWithTerms(
             IF Contains(query_lower, Head(table).term)
             THEN ExpandWithSynonyms(expanded_queries, query_lower, Head(table).term,
                                     Take(Head(table).synonyms, ExpandLimit))
             ELSE expanded_queries,
             query_lower, Tail(table))

\* expand_query with the result cut to the query alone: expanded_queries[:1]
expand_query_cut_to_one(query) ==
    Take(ExpandWithTerms(<<query>>, Lower(query), medical_synonyms), 1)

\* FirstAidRAGAssistant.expand_query
expand_query(query) ==
    Take(ExpandWithTerms(<<query>>, Lower(query), medical_synonyms), ExpandLimit)

\* the outer loop of QueryProcessor.expand_query over the synonym table, in table order:
\* every synonym list is cut to synonyms[:max_expansions]
RECURSIVE ExpandWithTermsUpTo(_, _, _, _)
ExpandWithTermsUpTo(expanded_queries, query_lower, table, max_expansions) ==
    IF table = <<>> THEN expanded_queries
    ELSE ExpandWithTermsUpTo(
             IF Contains(query_lower, Head(table).term)
             THEN ExpandWithSynonyms(expanded_queries, query_lower, Head(table).term,
                                     Take(Head(table).synonyms, max_expansions))
             ELSE expanded_queries,
             query_lower, Tail(table), max_expansions)

\* QueryProcessor.expand_query, for a max_expansions that is not negative
QueryProcessor_expand_query(query, max_expansions) ==
    Take(ExpandWithTermsUpTo(<<query>>, Lower(query), medical_synonyms, max_expansions),
         max_expansions)

\* len(w) > 2 of extract_keywords
MinKeywordLen == 2

\* FirstAidRAGAssistant.extract_keywords
extract_keywords(query) ==
    SelectSeq(Split(Lower(query)), LAMBDA w : w \notin stop_words /\ Len(w) > MinKeywordLen)

(***************************************************************************)
(* The response sanitizer (FirstAidRAGAssistant.clean_response_format).    *)
(* Each re.sub is a left-to-right scan: the earliest match from the        *)
(* current position is replaced and the scan goes on behind it.            *)
(***************************************************************************)

\* the least element of a non-empty set of numbers
Min(S) == CHOOSE x \in S : \A y \in S : x <= y

\* the first position from `from` on that holds no whitespace (Len(s) + 1 if none)
SkipSpace(s, from) ==
    Min({k \in from..Len(s) : ~IsSpace(s[k])} \cup {Len(s) + 1})

\* ^ under re.MULTILINE: the start of the text or the position behind a line break
AtLineStart(s, i) == i = 1 \/ s[i - 1] = "\n"

\* #{1,6}: at most this many heading markers are matched
MaxHeadingMarks == 6

\* the position behind the run of c that starts at i, the run cut at n characters
SkipRun(s, i, c, n) ==
    Min({k \in i..(i + n) : k > Len(s) \/ s[k] # c \/ k = i + n})

\* r'^\s*#{1,6}\s*' matches at i
HeadingAt(s, i) ==
    /\ AtLineStart(s, i)
    /\ SkipSpace(s, i) <= Len(s)
    /\ s[SkipSpace(s, i)] = "#"

\* the position behind the match of r'^\s*#{1,6}\s*' at i
HeadingEnd(s, i) == SkipSpace(s, SkipRun(s, SkipSpace(s, i), "#", MaxHeadingMarks))

\* re.sub(r'^\s*#{1,6}\s*', '', text, flags=re.MULTILINE), from position `from`
RECURSIVE StripHeadings(_, _)
StripHeadings(s, from) ==
    LET starts == {i \in from..Len(s) : HeadingAt(s, i)}
    IN  IF starts = {} THEN SubSeq(s, from, Len(s))
        ELSE LET i == Min(starts)
             IN  SubSeq(s, from, i - 1) \o StripHeadings(s, HeadingEnd(s, i))

\* the first position from `from` on that holds c (0 if none)
NextChar(s, from, c) ==
    LET at == {k \in from..Len(s) : s[k] = c}
    IN  IF at = {} THEN 0 ELSE Min(at)

\* \*{1,2} at i, taken greedily: the number of asterisks the opening takes first
OpeningStars(s, i) == IF i + 1 <= Len(s) /\ s[i + 1] = "*" THEN 2 ELSE 1

\* r'\*{1,2}(.+?)\*{1,2}' at i: the number of asterisks the opening ends up with (0: no
\* match at i).  The opening gives one asterisk back when no closing one is left for two.
EmphasisOpening(s, i) ==
    IF s[i] # "*" THEN 0
    ELSE IF NextChar(s, i + OpeningStars(s, i) + 1, "*") # 0 THEN OpeningStars(s, i)
    ELSE IF OpeningStars(s, i) = 2 /\ NextChar(s, i + 2, "*") # 0 THEN 1
    ELSE 0

\* re.sub(r'\*{1,2}(.+?)\*{1,2}', r'\1', text, flags=re.DOTALL), from position `from`
RECURSIVE StripEmphasis(_, _)
StripEmphasis(s, from) ==
    LET starts == {i \in from..Len(s) : EmphasisOpening(s, i) > 0}
    IN  IF starts = {} THEN SubSeq(s, from, Len(s))
        ELSE LET i == Min(starts)
                 g == i + EmphasisOpening(s, i)
                 j == NextChar(s, g + 1, "*")
                 e == j + OpeningStars(s, j)
             IN  SubSeq(s, from, i - 1) \o SubSeq(s, g, j - 1) \o StripEmphasis(s, e)

\* re.sub(r'`(.+?)`', r'\1', text, flags=re.DOTALL), from position `from`
RECURSIVE StripInlineCode(_, _)
StripInlineCode(s, from) ==
    LET starts == {i \in from..Len(s) : s[i] = "BACKTICK" /\ NextChar(s, i + 2, "BACKTICK") # 0}
    IN  IF starts = {} THEN SubSeq(s, from, Len(s))
        ELSE LET i == Min(starts)
                 j == NextChar(s, i + 2, "BACKTICK")
             IN  SubSeq(s, from, i - 1) \o SubSeq(s, i + 1, j - 1) \o StripInlineCode(s, j + 1)

\* [-\*•]
BulletChars == {"-", "*", "U2022"}

\* the canonical bullet the sanitizer writes
Bullet == <<"U2022", " ">>

\* r'(?m)^[\s]*[-\*•]\s+' matches at i
BulletAt(s, i) ==
    /\ AtLineStart(s, i)
    /\ SkipSpace(s, i) + 1 <= Len(s)
    /\ s[SkipSpace(s, i)] \in BulletChars
    /\ IsSpace(s[SkipSpace(s, i) + 1])

\* re.sub(r'(?m)^[\s]*[-\*•]\s+', '• ', text), from position `from`
RECURSIVE NormalizeBullets(_, _)
NormalizeBullets(s, from) ==
    LET starts == {i \in from..Len(s) : BulletAt(s, i)}
    IN  IF starts = {} THEN SubSeq(s, from, Len(s))
        ELSE LET i == Min(starts)
             IN  SubSeq(s, from, i - 1) \o Bullet
                     \o NormalizeBullets(s, SkipSpace(s, SkipSpace(s, i) + 1))

\* \n{3,}: a run of at least this many line breaks is collapsed
LongBreak == 3

\* re.sub(r'\n{3,}', '\n\n', text), from position `from`
RECURSIVE CollapseBreaks(_, _)
CollapseBreaks(s, from) ==
    LET starts == {i \in from..(Len(s) - LongBreak + 1) :
                      \A k \in i..(i + LongBreak - 1) : s[k] = "\n"}
    IN  IF starts = {} THEN SubSeq(s, from, Len(s))
        ELSE LET i == Min(starts)
                 e == Min({k \in i..Len(s) : s[k] # "\n"} \cup {Len(s) + 1})
             IN  SubSeq(s, from, i - 1) \o <<"\n", "\n">> \o CollapseBreaks(s, e)

\* FirstAidRAGAssistant.clean_response_format
clean_response_format(text) ==
    IF text = <<>> THEN text
    ELSE Strip(CollapseBreaks(NormalizeBullets(StripInlineCode(StripEmphasis(
             StripHeadings(text, 1), 1), 1), 1), 1))

(***************************************************************************)
(* The heuristic fallback responder                                        *)
(* (FirstAidRAGAssistant._generate_fallback_response).                     *)
(***************************************************************************)

\* {**injury_map, **symptom_map} of _generate_fallback_response, in iteration order:
\* the injury keys as written, then the symptom keys as written
context_map == <<
    [key |-> <<"s","p","r","a","i","n">>,
     context |-> <<"s","p","r","a","i","n">>],
    [key |-> <<"a","n","k","l","e">>,
     context |-> <<"s","p","r","a","i","n">>],
    [key |-> <<"w","r","i","s","t">>,
     context |-> <<"s","p","r","a","i","n">>],
    [key |-> <<"s","t","r","a","i","n">>,
     context |-> <<"s","p","r","a","i","n">>],
    [key |-> <<"c","u","t">>,
     context |-> <<"b","l","e","e","d","i","n","g">>],
    [key |-> <<"b","l","e","e","d">>,
     context |-> <<"b","l","e","e","d","i","n","g">>],
    [key |-> <<"b","l","o","o","d">>,
     context |-> <<"b","l","e","e","d","i","n","g">>],
    [key |-> <<"b","u","r","n">>,
     context |-> <<"b","u","r","n">>],
    [key |-> <<"f","i","r","e">>,
     context |-> <<"b","u","r","n">>],
    [key |-> <<"s","c","a","l","d">>,
     context |-> <<"b","u","r","n">>],
    [key |-> <<"a","c","i","d">>,
     context |-> <<"a","c","i","d","_","b","u","r","n">>],
    [key |-> <<"c","h","e","m","i","c","a","l">>,
     context |-> <<"a","c","i","d","_","b","u","r","n">>],
    [key |-> <<"f","r","a","c","t","u","r","e">>,
     context |-> <<"f","r","a","c","t","u","r","e">>],
    [key |-> <<"b","r","o","k","e","n">>,
     context |-> <<"f","r","a","c","t","u","r","e">>],
    [key |-> <<"b","o","n","e">>,
     context |-> <<"f","r","a","c","t","u","r","e">>],
    [key |-> <<"c","h","o","k","e">>,
     context |-> <<"c","h","o","k","i","n","g">>],
    [key |-> <<"a","i","r","w","a","y">>,
     context |-> <<"c","h","o","k","i","n","g">>],
    [key |-> <<"p","o","i","s","o","n">>,
     context |-> <<"p","o","i","s","o","n","i","n","g">>],
    [key |-> <<"o","v","e","r","d","o","s","e">>,
     context |-> <<"p","o","i","s","o","n","i","n","g">>],
    [key |-> <<"s","n","a","k","e">>,
     context |-> <<"s","n","a","k","e","_","b","i","t","e">>],
    [key |-> <<"b","i","t","e">>,
     context |-> <<"s","n","a","k","e","_","b","i","t","e">>],
    [key |-> <<"s","t","i","n","g">>,
     context |-> <<"s","n","a","k","e","_","b","i","t","e">>],
    [key |-> <<"a","l","l","e","r","g","y">>,
     context |-> <<"a","l","l","e","r","g","i","c","_","r","e","a","c","t","i","o","n">>],
    [key |-> <<"a","n","a","p","h","y","l","a","x","i","s">>,
     context |-> <<"a","l","l","e","r","g","i","c","_","r","e","a","c","t","i","o","n">>],
    [key |-> <<"s","h","o","c","k">>,
     context |-> <<"s","h","o","c","k">>],
    [key |-> <<"s","e","i","z","u","r","e">>,
     context |-> <<"s","e","i","z","u","r","e">>],
    [key |-> <<"f","i","t">>,
     context |-> <<"s","e","i","z","u","r","e">>],
    [key |-> <<"f","a","i","n","t">>,
     context |-> <<"f","a","i","n","t","i","n","g">>],
    [key |-> <<"u","n","c","o","n","s","c","i","o","u","s">>,
     context |-> <<"f","a","i","n","t","i","n","g">>],
    [key |-> <<"b","r","e","a","t","h">>,
     context |-> <<"b","r","e","a","t","h","i","n","g">>],
    [key |-> <<"a","s","t","h","m","a">>,
     context |-> <<"b","r","e","a","t","h","i","n","g">>],
    [key |-> <<"c","h","e","s","t"," ","p","a","i","n">>,
     context |-> <<"h","e","a","r","t","_","a","t","t","a","c","k">>],
    [key |-> <<"h","e","a","r","t">>,
     context |-> <<"h","e","a","r","t","_","a","t","t","a","c","k">>],
    [key |-> <<"v","o","m","i","t">>,
     context |-> <<"n","a","u","s","e","a","_","v","o","m","i","t","i","n","g">>],
    [key |-> <<"n","a","u","s","e","a">>,
     context |-> <<"n","a","u","s","e","a","_","v","o","m","i","t","i","n","g">>],
    [key |-> <<"h","e","a","d","a","c","h","e">>,
     context |-> <<"h","e","a","d","a","c","h","e">>],
    [key |-> <<"m","i","g","r","a","i","n","e">>,
     context |-> <<"h","e","a","d","a","c","h","e">>],
    [key |-> <<"d","i","z","z","y">>,
     context |-> <<"d","i","z","z","i","n","e","s","s">>],
    [key |-> <<"l","i","g","h","t","h","e","a","d","e","d">>,
     context |-> <<"d","i","z","z","i","n","e","s","s">>],
    [key |-> <<"s","w","e","a","t">>,
     context |-> <<"h","e","a","t","_","e","x","h","a","u","s","t","i","o","n">>],
    [key |-> <<"h","o","t">>,
     context |-> <<"h","e","a","t","_","e","x","h","a","u","s","t","i","o","n">>],
    [key |-> <<"h","e","a","t">>,
     context |-> <<"h","e","a","t","_","e","x","h","a","u","s","t","i","o","n">>],
    [key |-> <<"f","e","v","e","r">>,
     context |-> <<"f","e","v","e","r">>],
    [key |-> <<"m","u","s","c","l","e"," ","a","c","h","e">>,
     context |-> <<"f","l","u","_","l","i","k","e","_","i","l","l","n","e","s","s">>],
    [key |-> <<"b","o","d","y"," ","a","c","h","e">>,
     context |-> <<"f","l","u","_","l","i","k","e","_","i","l","l","n","e","s","s">>],
    [key |-> <<"c","h","i","l","l","s">>,
     context |-> <<"f","l","u","_","l","i","k","e","_","i","l","l","n","e","s","s">>],
    [key |-> <<"d","i","a","r","r","h","e","a">>,
     context |-> <<"f","o","o","d","_","p","o","i","s","o","n","i","n","g">>],
    [key |-> <<"s","t","o","m","a","c","h"," ","p","a","i","n">>,
     context |-> <<"f","o","o","d","_","p","o","i","s","o","n","i","n","g">>],
    [key |-> <<"c","r","a","m","p","s">>,
     context |-> <<"f","o","o","d","_","p","o","i","s","o","n","i","n","g">>]
>>

\* responses of _generate_fallback_response: the canned block of each context
responses == <<
    [context |-> <<"s","p","r","a","i","n">>,
     text |->
        <<"U26A0","UFE0F"," ","*","*","I","m","m","e","d","i","a","t","e"," ","A","c","t","i","o",
          "n","*","*","\n","U2022"," ","S","t","o","p"," ","a","n","y"," ","a","c","t","i","v",
          "i","t","y"," ","t","h","a","t"," ","c","a","u","s","e","s"," ","p","a","i","n",".",
          "\n","U2022"," ","A","p","p","l","y"," ","a","n"," ","i","c","e"," ","p","a","c","k",
          " ","w","r","a","p","p","e","d"," ","i","n"," ","a"," ","t","o","w","e","l"," ","f","o",
          "r"," ","1","5","-","2","0"," ","m","i","n","u","t","e","s"," ","e","v","e","r","y"," ",
          "2"," ","h","o","u","r","s",".","\n","U2022"," ","C","o","m","p","r","e","s","s"," ",
          "w","i","t","h"," ","a"," ","s","o","f","t"," ","b","a","n","d","a","g","e"," ","(","n",
          "o","t"," ","t","o","o"," ","t","i","g","h","t",")",".","\n","U2022"," ","E","l","e",
          "v","a","t","e"," ","t","h","e"," ","i","n","j","u","r","e","d"," ","l","i","m","b"," ",
          "a","b","o","v","e"," ","h","e","a","r","t"," ","l","e","v","e","l",".","\n","\n","*",
          "*","W","h","e","n"," ","t","o"," ","S","e","e","k"," ","M","e","d","i","c","a","l"," ",
          "H","e","l","p","*","*","\n","U2022"," ","Y","o","u"," ","c","a","n","'","t"," ","m",
          "o","v","e"," ","o","r"," ","b","e","a","r"," ","w","e","i","g","h","t",".","\n",
          "U2022"," ","P","a","i","n"," ","o","r"," ","s","w","e","l","l","i","n","g"," ","w","o",
          "r","s","e","n","s"," ","a","f","t","e","r"," ","4","8"," ","h","o","u","r","s",".">>],
    [context |-> <<"b","l","e","e","d","i","n","g">>,
     text |->
        <<"U26A0","UFE0F"," ","*","*","I","m","m","e","d","i","a","t","e"," ","A","c","t","i","o",
          "n","*","*","\n","U2022"," ","A","p","p","l","y"," ","f","i","r","m"," ","p","r","e",
          "s","s","u","r","e"," ","w","i","t","h"," ","a"," ","c","l","e","a","n"," ","c","l","o",
          "t","h"," ","o","r"," ","b","a","n","d","a","g","e",".","\n","U2022"," ","K","e","e",
          "p"," ","p","r","e","s","s","u","r","e"," ","f","o","r"," ","a","t"," ","l","e","a","s",
          "t"," ","1","0"," ","m","i","n","u","t","e","s",".","\n","U2022"," ","E","l","e","v",
          "a","t","e"," ","t","h","e"," ","w","o","u","n","d","e","d"," ","a","r","e","a"," ","i",
          "f"," ","p","o","s","s","i","b","l","e",".","\n","\n","*","*","W","h","e","n"," ","t",
          "o"," ","S","e","e","k"," ","M","e","d","i","c","a","l"," ","H","e","l","p","*","*",
          "\n","U2022"," ","B","l","e","e","d","i","n","g"," ","w","o","n","'","t"," ","s","t",
          "o","p"," ","o","r"," ","b","l","o","o","d"," ","s","p","u","r","t","s",".","\n",
          "U2022"," ","T","h","e"," ","w","o","u","n","d"," ","i","s"," ","d","e","e","p"," ","o",
          "r"," ","c","o","n","t","a","m","i","n","a","t","e","d",".">>],
    [context |-> <<"b","u","r","n">>,
     text |->
        <<"U26A0","UFE0F"," ","*","*","I","m","m","e","d","i","a","t","e"," ","A","c","t","i","o",
          "n","*","*","\n","U2022"," ","C","o","o","l"," ","t","h","e"," ","b","u","r","n"," ",
          "u","n","d","e","r"," ","c","o","o","l"," ","r","u","n","n","i","n","g"," ","w","a","t",
          "e","r"," ","f","o","r"," ","a","t"," ","l","e","a","s","t"," ","1","0"," ","m","i","n",
          "u","t","e","s",".","\n","U2022"," ","R","e","m","o","v","e"," ","j","e","w","e","l",
          "r","y"," ","o","r"," ","t","i","g","h","t"," ","c","l","o","t","h","i","n","g"," ","n",
          "e","a","r"," ","t","h","e"," ","b","u","r","n",".","\n","U2022"," ","C","o","v","e",
          "r"," ","w","i","t","h"," ","s","t","e","r","i","l","e"," ","g","a","u","z","e"," ","(",
          "n","o"," ","c","r","e","a","m","s"," ","o","r"," ","b","u","t","t","e","r",")",".",
          "\n","\n","*","*","W","h","e","n"," ","t","o"," ","S","e","e","k"," ","M","e","d","i",
          "c","a","l"," ","H","e","l","p","*","*","\n","U2022"," ","T","h","e"," ","b","u","r",
          "n"," ","i","s"," ","l","a","r","g","e","r"," ","t","h","a","n"," ","y","o","u","r"," ",
          "p","a","l","m",".","\n","U2022"," ","I","t"," ","a","f","f","e","c","t","s"," ","t",
          "h","e"," ","f","a","c","e",","," ","j","o","i","n","t","s",","," ","o","r"," ","g","e",
          "n","i","t","a","l","s",".">>],
    [context |-> <<"a","c","i","d","_","b","u","r","n">>,
     text |->
        <<"U26A0","UFE0F"," ","*","*","I","m","m","e","d","i","a","t","e"," ","A","c","t","i","o",
          "n","*","*","\n","S","i","n","c","e"," ","t","h","e"," ","p","r","o","v","i","d","e",
          "d"," ","s","o","u","r","c","e","s"," ","d","o"," ","n","o","t"," ","d","i","r","e","c",
          "t","l","y"," ","a","d","d","r","e","s","s"," ","a","c","i","d"," ","b","u","r","n","s",
          ","," ","i","t","'","s"," ","c","r","u","c","i","a","l"," ","t","o"," ","a","c","t"," ",
          "q","u","i","c","k","l","y"," ","a","n","d"," ","c","a","r","e","f","u","l","l","y",".",
          " ","I","f"," ","t","h","e"," ","a","c","i","d"," ","b","u","r","n"," ","i","s"," ","s",
          "e","v","e","r","e"," ","o","r"," ","c","o","v","e","r","s"," ","a"," ","l","a","r","g",
          "e"," ","a","r","e","a",","," ","C","A","L","L"," ","9","1","1","/","9","9","9"," ","I",
          "M","M","E","D","I","A","T","E","L","Y",".","\n","\n","*","*","S","t","e","p","-","b",
          "y","-","S","t","e","p"," ","I","n","s","t","r","u","c","t","i","o","n","s","*","*",
          "\n","1","."," ","R","e","m","o","v","e"," ","a","n","y"," ","c","o","n","t","a","m",
          "i","n","a","t","e","d"," ","c","l","o","t","h","i","n","g"," ","o","r"," ","j","e","w",
          "e","l","r","y"," ","f","r","o","m"," ","t","h","e"," ","a","f","f","e","c","t","e","d",
          " ","a","r","e","a"," ","t","o"," ","p","r","e","v","e","n","t"," ","f","u","r","t","h",
          "e","r"," ","d","a","m","a","g","e",".","\n","2","."," ","R","i","n","s","e"," ","t",
          "h","e"," ","a","f","f","e","c","t","e","d"," ","a","r","e","a"," ","w","i","t","h"," ",
          "c","o","o","l"," ","o","r"," ","l","u","k","e","w","a","r","m"," ","w","a","t","e","r",
          " ","f","o","r"," ","a","t"," ","l","e","a","s","t"," ","2","0"," ","m","i","n","u","t",
          "e","s"," ","t","o"," ","h","e","l","p"," ","n","e","u","t","r","a","l","i","z","e"," ",
          "t","h","e"," ","a","c","i","d","."," ","A","v","o","i","d"," ","u","s","i","n","g"," ",
          "h","o","t"," ","w","a","t","e","r",","," ","a","s"," ","i","t"," ","c","a","n"," ","a",
          "c","t","i","v","a","t","e"," ","t","h","e"," ","a","c","i","d"," ","a","n","d"," ","c",
          "a","u","s","e"," ","f","u","r","t","h","e","r"," ","d","a","m","a","g","e",".","\n",
          "3","."," ","A","f","t","e","r"," ","r","i","n","s","i","n","g",","," ","c","o","v","e",
          "r"," ","t","h","e"," ","a","f","f","e","c","t","e","d"," ","a","r","e","a"," ","w","i",
          "t","h"," ","a"," ","s","t","e","r","i","l","e",","," ","n","o","n","-","s","t","i","c",
          "k"," ","d","r","e","s","s","i","n","g"," ","o","r"," ","a"," ","c","l","e","a","n"," ",
          "c","l","o","t","h"," ","t","o"," ","p","r","o","t","e","c","t"," ","i","t"," ","f","r",
          "o","m"," ","f","u","r","t","h","e","r"," ","i","r","r","i","t","a","t","i","o","n",".",
          "\n","\n","*","*","W","h","e","n"," ","t","o"," ","S","e","e","k"," ","M","e","d","i",
          "c","a","l"," ","H","e","l","p","*","*","\n","U2022"," ","I","f"," ","t","h","e"," ",
          "b","u","r","n"," ","i","s"," ","s","e","v","e","r","e",","," ","l","a","r","g","e",",",
          " ","o","r"," ","d","e","e","p","\n","U2022"," ","I","f"," ","t","h","e"," ","b","u",
          "r","n"," ","i","s"," ","o","n"," ","t","h","e"," ","f","a","c","e",","," ","h","a","n",
          "d","s",","," ","o","r"," ","f","e","e","t","\n","U2022"," ","I","f"," ","y","o","u",
          " ","e","x","p","e","r","i","e","n","c","e"," ","d","i","f","f","i","c","u","l","t","y",
          " ","b","r","e","a","t","h","i","n","g",","," ","a","s"," ","s","o","m","e"," ","a","c",
          "i","d","s"," ","c","a","n"," ","r","e","l","e","a","s","e"," ","t","o","x","i","c"," ",
          "f","u","m","e","s","\n","\n","*","*","W","h","a","t"," ","N","O","T"," ","t","o"," ",
          "D","o","*","*","\n","U2022"," ","D","o"," ","n","o","t"," ","a","p","p","l","y"," ",
          "i","c","e"," ","o","r"," ","i","c","e"," ","w","a","t","e","r"," ","t","o"," ","t","h",
          "e"," ","b","u","r","n",","," ","a","s"," ","t","h","i","s"," ","c","a","n"," ","c","a",
          "u","s","e"," ","f","u","r","t","h","e","r"," ","d","a","m","a","g","e","\n","U2022",
          " ","D","o"," ","n","o","t"," ","u","s","e"," ","h","a","r","s","h"," ","o","r"," ","a",
          "b","r","a","s","i","v","e"," ","c","l","e","a","n","s","e","r","s",","," ","a","s"," ",
          "t","h","e","y"," ","c","a","n"," ","i","r","r","i","t","a","t","e"," ","t","h","e"," ",
          "s","k","i","n"," ","a","n","d"," ","w","o","r","s","e","n"," ","t","h","e"," ","b","u",
          "r","n","\n","\n","*","*","A","d","d","i","t","i","o","n","a","l"," ","N","o","t","e",
          "s","*","*","\n","T","h","e"," ","p","r","o","v","i","d","e","d"," ","s","o","u","r",
          "c","e","s"," ","d","o"," ","n","o","t"," ","o","f","f","e","r"," ","s","p","e","c","i",
          "f","i","c"," ","g","u","i","d","a","n","c","e"," ","o","n"," ","t","r","e","a","t","i",
          "n","g"," ","a","c","i","d"," ","b","u","r","n","s","."," ","H","o","w","e","v","e","r",
          ","," ","g","e","n","e","r","a","l"," ","f","i","r","s","t"," ","a","i","d"," ","p","r",
          "i","n","c","i","p","l","e","s"," ","s","u","g","g","e","s","t"," ","r","i","n","s","i",
          "n","g"," ","t","h","e"," ","a","f","f","e","c","t","e","d"," ","a","r","e","a"," ","w",
          "i","t","h"," ","c","o","o","l"," ","w","a","t","e","r"," ","a","n","d"," ","s","e","e",
          "k","i","n","g"," ","m","e","d","i","c","a","l"," ","a","t","t","e","n","t","i","o","n",
          " ","i","f"," ","t","h","e"," ","b","u","r","n"," ","i","s"," ","s","e","v","e","r","e",
          " ","o","r"," ","c","o","v","e","r","s"," ","a"," ","l","a","r","g","e"," ","a","r","e",
          "a","."," ","I","t","'","s"," ","e","s","s","e","n","t","i","a","l"," ","t","o"," ","c",
          "o","n","s","u","l","t"," ","a"," ","m","e","d","i","c","a","l"," ","p","r","o","f","e",
          "s","s","i","o","n","a","l"," ","o","r"," ","a"," ","r","e","l","i","a","b","l","e"," ",
          "f","i","r","s","t"," ","a","i","d"," ","r","e","s","o","u","r","c","e"," ","f","o","r",
          " ","s","p","e","c","i","f","i","c"," ","g","u","i","d","a","n","c","e"," ","o","n"," ",
          "t","r","e","a","t","i","n","g"," ","a","c","i","d"," ","b","u","r","n","s","."," ","T",
          "h","e"," ","A","m","e","r","i","c","a","n"," ","R","e","d"," ","C","r","o","s","s"," ",
          "a","n","d"," ","N","H","S"," ","U","K"," ","w","e","b","s","i","t","e","s"," ","m","a",
          "y"," ","h","a","v","e"," ","m","o","r","e"," ","c","o","m","p","r","e","h","e","n","s",
          "i","v","e"," ","i","n","f","o","r","m","a","t","i","o","n"," ","o","n"," ","t","r","e",
          "a","t","i","n","g"," ","a","c","i","d"," ","b","u","r","n","s",".">>],
    [context |-> <<"f","r","a","c","t","u","r","e">>,
     text |->
        <<"U26A0","UFE0F"," ","*","*","I","m","m","e","d","i","a","t","e"," ","A","c","t","i","o",
          "n","*","*","\n","U2022"," ","K","e","e","p"," ","t","h","e"," ","i","n","j","u","r",
          "e","d"," ","l","i","m","b"," ","s","t","i","l","l"," ","a","n","d"," ","s","u","p","p",
          "o","r","t","e","d",".","\n","U2022"," ","A","p","p","l","y"," ","i","c","e"," ","w",
          "r","a","p","p","e","d"," ","i","n"," ","a"," ","c","l","o","t","h"," ","t","o"," ","r",
          "e","d","u","c","e"," ","s","w","e","l","l","i","n","g",".","\n","U2022"," ","D","o",
          " ","n","o","t"," ","m","o","v","e"," ","o","r"," ","s","t","r","a","i","g","h","t","e",
          "n"," ","t","h","e"," ","l","i","m","b",".","\n","\n","*","*","W","h","e","n"," ","t",
          "o"," ","S","e","e","k"," ","M","e","d","i","c","a","l"," ","H","e","l","p","*","*",
          "\n","U2022"," ","B","o","n","e"," ","i","s"," ","v","i","s","i","b","l","e"," ","o",
          "r"," ","l","i","m","b"," ","l","o","o","k","s"," ","d","e","f","o","r","m","e","d",".",
          "\n","U2022"," ","P","a","i","n"," ","o","r"," ","s","w","e","l","l","i","n","g"," ",
          "i","s"," ","s","e","v","e","r","e",".","\n","C","A","L","L"," ","9","1","1","/","9",
          "9","9"," ","i","m","m","e","d","i","a","t","e","l","y"," ","f","o","r"," ","s","e","v",
          "e","r","e"," ","f","r","a","c","t","u","r","e","s",".">>],
    [context |-> <<"c","h","o","k","i","n","g">>,
     text |->
        <<"U26A0","UFE0F"," ","*","*","I","m","m","e","d","i","a","t","e"," ","A","c","t","i","o",
          "n","*","*","\n","U2022"," ","A","s","k"," ","t","h","e","m"," ","t","o"," ","c","o",
          "u","g","h"," ","s","t","r","o","n","g","l","y",".","\n","U2022"," ","I","f"," ","u",
          "n","a","b","l","e"," ","t","o"," ","b","r","e","a","t","h","e"," ","o","r"," ","t","a",
          "l","k",","," ","p","e","r","f","o","r","m"," ","5"," ","b","a","c","k"," ","b","l","o",
          "w","s",","," ","t","h","e","n"," ","5"," ","a","b","d","o","m","i","n","a","l"," ","t",
          "h","r","u","s","t","s",".","\n","U2022"," ","A","l","t","e","r","n","a","t","e"," ",
          "u","n","t","i","l"," ","t","h","e"," ","o","b","s","t","r","u","c","t","i","o","n"," ",
          "c","l","e","a","r","s",".","\n","\n","*","*","W","h","e","n"," ","t","o"," ","S","e",
          "e","k"," ","M","e","d","i","c","a","l"," ","H","e","l","p","*","*","\n","U2022"," ",
          "T","h","e","y"," ","r","e","m","a","i","n"," ","u","n","a","b","l","e"," ","t","o"," ",
          "b","r","e","a","t","h","e"," ","o","r"," ","l","o","s","e"," ","c","o","n","s","c","i",
          "o","u","s","n","e","s","s",".","\n","C","A","L","L"," ","9","1","1","/","9","9","9",
          " ","i","m","m","e","d","i","a","t","e","l","y",".">>],
    [context |-> <<"p","o","i","s","o","n","i","n","g">>,
     text |->
        <<"U26A0","UFE0F"," ","*","*","I","m","m","e","d","i","a","t","e"," ","A","c","t","i","o",
          "n","*","*","\n","U2022"," ","C","a","l","l"," ","a"," ","p","o","i","s","o","n"," ",
          "h","e","l","p","l","i","n","e"," ","o","r"," ","e","m","e","r","g","e","n","c","y"," ",
          "s","e","r","v","i","c","e","s"," ","i","m","m","e","d","i","a","t","e","l","y",".",
          "\n","U2022"," ","D","o"," ","n","o","t"," ","i","n","d","u","c","e"," ","v","o","m",
          "i","t","i","n","g",".","\n","U2022"," ","K","e","e","p"," ","t","h","e"," ","s","u",
          "b","s","t","a","n","c","e"," ","c","o","n","t","a","i","n","e","r"," ","f","o","r"," ",
          "r","e","f","e","r","e","n","c","e",".","\n","\n","C","A","L","L"," ","9","1","1","/",
          "9","9","9"," ","I","M","M","E","D","I","A","T","E","L","Y",".">>],
    [context |-> <<"s","n","a","k","e","_","b","i","t","e">>,
     text |->
        <<"U26A0","UFE0F"," ","*","*","I","m","m","e","d","i","a","t","e"," ","A","c","t","i","o",
          "n","*","*","\n","U2022"," ","K","e","e","p"," ","t","h","e"," ","p","e","r","s","o",
          "n"," ","c","a","l","m"," ","a","n","d"," ","s","t","i","l","l",".","\n","U2022"," ",
          "K","e","e","p"," ","b","i","t","e"," ","a","r","e","a"," ","b","e","l","o","w"," ","h",
          "e","a","r","t"," ","l","e","v","e","l",".","\n","U2022"," ","R","e","m","o","v","e",
          " ","t","i","g","h","t"," ","i","t","e","m","s"," ","a","n","d"," ","c","a","l","l"," ",
          "e","m","e","r","g","e","n","c","y"," ","h","e","l","p"," ","i","m","m","e","d","i","a",
          "t","e","l","y",".","\n","\n","*","*","W","h","a","t"," ","N","O","T"," ","t","o"," ",
          "D","o","*","*","\n","U2022"," ","D","o"," ","n","o","t"," ","c","u","t",","," ","s",
          "u","c","k",","," ","o","r"," ","a","p","p","l","y"," ","a"," ","t","o","u","r","n","i",
          "q","u","e","t",".","\n","\n","C","A","L","L"," ","9","1","1","/","9","9","9"," ","I",
          "M","M","E","D","I","A","T","E","L","Y",".">>],
    [context |-> <<"a","l","l","e","r","g","i","c","_","r","e","a","c","t","i","o","n">>,
     text |->
        <<"U26A0","UFE0F"," ","*","*","I","m","m","e","d","i","a","t","e"," ","A","c","t","i","o",
          "n","*","*","\n","U2022"," ","I","f"," ","t","h","e"," ","p","e","r","s","o","n"," ",
          "h","a","s"," ","a","n"," ","E","p","i","P","e","n",","," ","h","e","l","p"," ","t","h",
          "e","m"," ","u","s","e"," ","i","t"," ","i","m","m","e","d","i","a","t","e","l","y",".",
          "\n","U2022"," ","C","a","l","l"," ","e","m","e","r","g","e","n","c","y"," ","s","e",
          "r","v","i","c","e","s"," ","r","i","g","h","t"," ","a","w","a","y",".","\n","U2022",
          " ","K","e","e","p"," ","t","h","e"," ","p","e","r","s","o","n"," ","l","y","i","n","g",
          " ","d","o","w","n"," ","w","i","t","h"," ","l","e","g","s"," ","e","l","e","v","a","t",
          "e","d",".","\n","U2022"," ","M","o","n","i","t","o","r"," ","b","r","e","a","t","h",
          "i","n","g"," ","a","n","d"," ","b","e"," ","r","e","a","d","y"," ","t","o"," ","p","e",
          "r","f","o","r","m"," ","C","P","R",".","\n","\n","C","A","L","L"," ","9","1","1","/",
          "9","9","9"," ","I","M","M","E","D","I","A","T","E","L","Y",".">>],
    [context |-> <<"s","h","o","c","k">>,
     text |->
        <<"U26A0","UFE0F"," ","*","*","I","m","m","e","d","i","a","t","e"," ","A","c","t","i","o",
          "n","*","*","\n","U2022"," ","C","a","l","l"," ","e","m","e","r","g","e","n","c","y",
          " ","s","e","r","v","i","c","e","s"," ","i","m","m","e","d","i","a","t","e","l","y",".",
          "\n","U2022"," ","L","a","y"," ","t","h","e"," ","p","e","r","s","o","n"," ","d","o",
          "w","n"," ","w","i","t","h"," ","l","e","g","s"," ","e","l","e","v","a","t","e","d"," ",
          "(","u","n","l","e","s","s"," ","s","p","i","n","a","l"," ","i","n","j","u","r","y"," ",
          "s","u","s","p","e","c","t","e","d",")",".","\n","U2022"," ","K","e","e","p"," ","t",
          "h","e","m"," ","w","a","r","m"," ","w","i","t","h"," ","b","l","a","n","k","e","t","s",
          ".","\n","U2022"," ","D","o"," ","n","o","t"," ","g","i","v","e"," ","f","o","o","d",
          " ","o","r"," ","w","a","t","e","r",".","\n","\n","C","A","L","L"," ","9","1","1","/",
          "9","9","9"," ","I","M","M","E","D","I","A","T","E","L","Y",".">>],
    [context |-> <<"s","e","i","z","u","r","e">>,
     text |->
        <<"U26A0","UFE0F"," ","*","*","I","m","m","e","d","i","a","t","e"," ","A","c","t","i","o",
          "n","*","*","\n","U2022"," ","P","r","o","t","e","c","t"," ","t","h","e"," ","p","e",
          "r","s","o","n"," ","f","r","o","m"," ","i","n","j","u","r","y"," ","b","y"," ","c","l",
          "e","a","r","i","n","g"," ","t","h","e"," ","a","r","e","a",".","\n","U2022"," ","P",
          "l","a","c","e"," ","s","o","m","e","t","h","i","n","g"," ","s","o","f","t"," ","u","n",
          "d","e","r"," ","t","h","e","i","r"," ","h","e","a","d",".","\n","U2022"," ","T","i",
          "m","e"," ","t","h","e"," ","s","e","i","z","u","r","e",".","\n","U2022"," ","T","u",
          "r","n"," ","t","h","e","m"," ","o","n"," ","t","h","e","i","r"," ","s","i","d","e"," ",
          "a","f","t","e","r"," ","t","h","e"," ","s","e","i","z","u","r","e"," ","e","n","d","s",
          ".","\n","\n","*","*","W","h","a","t"," ","N","O","T"," ","t","o"," ","D","o","*","*",
          "\n","U2022"," ","D","o"," ","n","o","t"," ","r","e","s","t","r","a","i","n"," ","t",
          "h","e","m"," ","o","r"," ","p","u","t"," ","a","n","y","t","h","i","n","g"," ","i","n",
          " ","t","h","e","i","r"," ","m","o","u","t","h",".","\n","\n","*","*","W","h","e","n",
          " ","t","o"," ","S","e","e","k"," ","M","e","d","i","c","a","l"," ","H","e","l","p","*",
          "*","\n","U2022"," ","S","e","i","z","u","r","e"," ","l","a","s","t","s"," ","m","o",
          "r","e"," ","t","h","a","n"," ","5"," ","m","i","n","u","t","e","s","\n","U2022"," ",
          "P","e","r","s","o","n"," ","d","o","e","s","n","'","t"," ","r","e","g","a","i","n"," ",
          "c","o","n","s","c","i","o","u","s","n","e","s","s","\n","U2022"," ","T","h","i","s",
          " ","i","s"," ","t","h","e","i","r"," ","f","i","r","s","t"," ","s","e","i","z","u","r",
          "e">>],
    [context |-> <<"f","a","i","n","t","i","n","g">>,
     text |->
        <<"U26A0","UFE0F"," ","*","*","I","m","m","e","d","i","a","t","e"," ","A","c","t","i","o",
          "n","*","*","\n","U2022"," ","H","e","l","p"," ","t","h","e"," ","p","e","r","s","o",
          "n"," ","l","i","e"," ","d","o","w","n"," ","f","l","a","t",".","\n","U2022"," ","R",
          "a","i","s","e"," ","l","e","g","s"," ","a","b","o","v","e"," ","h","e","a","r","t"," ",
          "l","e","v","e","l",".","\n","U2022"," ","L","o","o","s","e","n"," ","t","i","g","h",
          "t"," ","c","l","o","t","h","i","n","g",".","\n","U2022"," ","C","h","e","c","k"," ",
          "b","r","e","a","t","h","i","n","g"," ","a","n","d"," ","r","e","s","p","o","n","s","i",
          "v","e","n","e","s","s",".","\n","\n","*","*","W","h","e","n"," ","t","o"," ","S","e",
          "e","k"," ","M","e","d","i","c","a","l"," ","H","e","l","p","*","*","\n","U2022"," ",
          "I","f"," ","u","n","r","e","s","p","o","n","s","i","v","e"," ","o","r"," ","n","o","t",
          " ","b","r","e","a","t","h","i","n","g",","," ","s","t","a","r","t"," ","C","P","R"," ",
          "a","n","d"," ","c","a","l","l"," ","f","o","r"," ","h","e","l","p",".","\n","U2022",
          " ","I","f"," ","t","h","e","y"," ","d","o","n","'","t"," ","r","e","c","o","v","e","r",
          " ","w","i","t","h","i","n"," ","a"," ","m","i","n","u","t","e",".">>],
    [context |-> <<"b","r","e","a","t","h","i","n","g">>,
     text |->
        <<"U26A0","UFE0F"," ","*","*","I","m","m","e","d","i","a","t","e"," ","A","c","t","i","o",
          "n","*","*","\n","U2022"," ","H","e","l","p"," ","t","h","e","m"," ","s","i","t"," ",
          "u","p","r","i","g","h","t"," ","i","n"," ","a"," ","c","o","m","f","o","r","t","a","b",
          "l","e"," ","p","o","s","i","t","i","o","n",".","\n","U2022"," ","L","o","o","s","e",
          "n"," ","t","i","g","h","t"," ","c","l","o","t","h","i","n","g",".","\n","U2022"," ",
          "I","f"," ","t","h","e","y"," ","h","a","v","e"," ","a","n"," ","i","n","h","a","l","e",
          "r",","," ","h","e","l","p"," ","t","h","e","m"," ","u","s","e"," ","i","t",".","\n",
          "U2022"," ","E","n","c","o","u","r","a","g","e"," ","s","l","o","w",","," ","d","e","e",
          "p"," ","b","r","e","a","t","h","s",".","\n","\n","*","*","W","h","e","n"," ","t","o",
          " ","S","e","e","k"," ","M","e","d","i","c","a","l"," ","H","e","l","p","*","*","\n",
          "U2022"," ","B","r","e","a","t","h","i","n","g"," ","d","o","e","s","n","'","t"," ","i",
          "m","p","r","o","v","e","\n","U2022"," ","L","i","p","s"," ","o","r"," ","f","a","c",
          "e"," ","t","u","r","n"," ","b","l","u","e","\n","U2022"," ","P","e","r","s","o","n",
          " ","b","e","c","o","m","e","s"," ","u","n","r","e","s","p","o","n","s","i","v","e",
          "\n","\n","C","A","L","L"," ","9","1","1","/","9","9","9"," ","i","f"," ","s","e","v",
          "e","r","e",".">>],
    [context |-> <<"h","e","a","r","t","_","a","t","t","a","c","k">>,
     text |->
        <<"U26A0","UFE0F"," ","*","*","I","m","m","e","d","i","a","t","e"," ","A","c","t","i","o",
          "n","*","*","\n","C","A","L","L"," ","9","1","1","/","9","9","9"," ","I","M","M","E",
          "D","I","A","T","E","L","Y",".","\n","U2022"," ","K","e","e","p"," ","t","h","e"," ",
          "p","e","r","s","o","n"," ","c","a","l","m"," ","a","n","d"," ","s","e","a","t","e","d",
          ".","\n","U2022"," ","L","o","o","s","e","n"," ","t","i","g","h","t"," ","c","l","o",
          "t","h","i","n","g",".","\n","U2022"," ","H","e","l","p"," ","t","h","e","m"," ","c",
          "h","e","w"," ","o","n","e"," ","r","e","g","u","l","a","r"," ","a","s","p","i","r","i",
          "n"," ","(","u","n","l","e","s","s"," ","a","l","l","e","r","g","i","c",")",".","\n",
          "U2022"," ","B","e"," ","r","e","a","d","y"," ","t","o"," ","p","e","r","f","o","r","m",
          " ","C","P","R"," ","i","f"," ","b","r","e","a","t","h","i","n","g"," ","s","t","o","p",
          "s",".">>],
    [context |-> <<"n","a","u","s","e","a","_","v","o","m","i","t","i","n","g">>,
     text |->
        <<"*","*","P","o","s","s","i","b","l","e"," ","c","a","u","s","e","s",":","*","*"," ","f",
          "o","o","d"," ","p","o","i","s","o","n","i","n","g",","," ","s","t","o","m","a","c","h",
          " ","i","n","f","e","c","t","i","o","n",","," ","m","i","g","r","a","i","n","e",","," ",
          "o","r"," ","d","e","h","y","d","r","a","t","i","o","n",".","\n","\n","U26A0","UFE0F",
          " ","*","*","I","m","m","e","d","i","a","t","e"," ","C","a","r","e","*","*","\n",
          "U2022"," ","S","i","p"," ","s","m","a","l","l"," ","a","m","o","u","n","t","s"," ","o",
          "f"," ","w","a","t","e","r"," ","o","r"," ","a","n"," ","e","l","e","c","t","r","o","l",
          "y","t","e"," ","d","r","i","n","k",".","\n","U2022"," ","A","v","o","i","d"," ","s",
          "o","l","i","d"," ","f","o","o","d"," ","u","n","t","i","l"," ","v","o","m","i","t","i",
          "n","g"," ","s","u","b","s","i","d","e","s",".","\n","U2022"," ","R","e","s","t"," ",
          "i","n"," ","a"," ","c","o","o","l",","," ","v","e","n","t","i","l","a","t","e","d"," ",
          "p","l","a","c","e",".","\n","\n","*","*","W","h","e","n"," ","t","o"," ","S","e","e",
          "k"," ","M","e","d","i","c","a","l"," ","H","e","l","p","*","*","\n","U2022"," ","V",
          "o","m","i","t","i","n","g"," ","l","a","s","t","s"," ","m","o","r","e"," ","t","h","a",
          "n"," ","2","4"," ","h","o","u","r","s"," ","o","r"," ","y","o","u"," ","c","a","n","'",
          "t"," ","k","e","e","p"," ","f","l","u","i","d","s"," ","d","o","w","n",".","\n",
          "U2022"," ","T","h","e","r","e","'","s"," ","b","l","o","o","d"," ","i","n"," ","v","o",
          "m","i","t"," ","o","r"," ","s","e","v","e","r","e"," ","s","t","o","m","a","c","h"," ",
          "p","a","i","n",".">>],
    [context |-> <<"h","e","a","d","a","c","h","e">>,
     text |->
        <<"*","*","P","o","s","s","i","b","l","e"," ","c","a","u","s","e","s",":","*","*"," ","t",
          "e","n","s","i","o","n"," ","h","e","a","d","a","c","h","e",","," ","d","e","h","y","d",
          "r","a","t","i","o","n",","," ","m","i","g","r","a","i","n","e",","," ","s","t","r","e",
          "s","s",","," ","o","r"," ","h","e","a","t",".","\n","\n","U26A0","UFE0F"," ","*","*",
          "R","e","l","i","e","f"," ","S","t","e","p","s","*","*","\n","U2022"," ","R","e","s",
          "t"," ","i","n"," ","a"," ","q","u","i","e","t",","," ","d","a","r","k"," ","r","o","o",
          "m",".","\n","U2022"," ","D","r","i","n","k"," ","w","a","t","e","r"," ","-"," ","d",
          "e","h","y","d","r","a","t","i","o","n"," ","c","a","n"," ","w","o","r","s","e","n"," ",
          "h","e","a","d","a","c","h","e","s",".","\n","U2022"," ","A","p","p","l","y"," ","a",
          " ","c","o","l","d"," ","c","o","m","p","r","e","s","s"," ","t","o"," ","y","o","u","r",
          " ","f","o","r","e","h","e","a","d",".","\n","\n","*","*","W","h","e","n"," ","t","o",
          " ","S","e","e","k"," ","M","e","d","i","c","a","l"," ","H","e","l","p","*","*","\n",
          "U2022"," ","T","h","e"," ","h","e","a","d","a","c","h","e"," ","i","s"," ","s","u","d",
          "d","e","n"," ","a","n","d"," ","s","e","v","e","r","e",".","\n","U2022"," ","V","i",
          "s","i","o","n"," ","c","h","a","n","g","e","s",","," ","c","o","n","f","u","s","i","o",
          "n",","," ","o","r"," ","v","o","m","i","t","i","n","g"," ","o","c","c","u","r",".">>],
    [context |-> <<"d","i","z","z","i","n","e","s","s">>,
     text |->
        <<"*","*","P","o","s","s","i","b","l","e"," ","c","a","u","s","e","s",":","*","*"," ","d",
          "e","h","y","d","r","a","t","i","o","n",","," ","l","o","w"," ","b","l","o","o","d"," ",
          "s","u","g","a","r",","," ","f","a","t","i","g","u","e",","," ","o","r"," ","f","a","i",
          "n","t","i","n","g"," ","o","n","s","e","t",".","\n","\n","U26A0","UFE0F"," ","*","*",
          "W","h","a","t"," ","t","o"," ","D","o","*","*","\n","U2022"," ","S","i","t"," ","o",
          "r"," ","l","i","e"," ","d","o","w","n"," ","i","m","m","e","d","i","a","t","e","l","y",
          ".","\n","U2022"," ","D","r","i","n","k"," ","w","a","t","e","r"," ","o","r"," ","a",
          "n"," ","e","l","e","c","t","r","o","l","y","t","e"," ","s","o","l","u","t","i","o","n",
          ".","\n","U2022"," ","E","a","t"," ","s","o","m","e","t","h","i","n","g"," ","l","i",
          "g","h","t"," ","i","f"," ","y","o","u"," ","h","a","v","e","n","'","t"," ","e","a","t",
          "e","n"," ","r","e","c","e","n","t","l","y",".","\n","\n","*","*","W","h","e","n"," ",
          "t","o"," ","S","e","e","k"," ","M","e","d","i","c","a","l"," ","H","e","l","p","*","*",
          "\n","U2022"," ","D","i","z","z","i","n","e","s","s"," ","l","a","s","t","s"," ","l",
          "o","n","g"," ","o","r"," ","o","c","c","u","r","s"," ","w","i","t","h"," ","c","h","e",
          "s","t"," ","p","a","i","n"," ","o","r"," ","s","h","o","r","t","n","e","s","s"," ","o",
          "f"," ","b","r","e","a","t","h",".">>],
    [context |-> <<"h","e","a","t","_","e","x","h","a","u","s","t","i","o","n">>,
     text |->
        <<"*","*","P","o","s","s","i","b","l","e"," ","c","a","u","s","e",":","*","*"," ","p","r",
          "o","l","o","n","g","e","d"," ","h","e","a","t"," ","e","x","p","o","s","u","r","e"," ",
          "o","r"," ","d","e","h","y","d","r","a","t","i","o","n",".","\n","\n","U26A0","UFE0F",
          " ","*","*","I","m","m","e","d","i","a","t","e"," ","A","c","t","i","o","n","*","*",
          "\n","U2022"," ","M","o","v","e"," ","t","o"," ","a"," ","c","o","o","l",","," ","s",
          "h","a","d","e","d"," ","a","r","e","a",".","\n","U2022"," ","L","o","o","s","e","n",
          " ","c","l","o","t","h","i","n","g"," ","a","n","d"," ","a","p","p","l","y"," ","c","o",
          "o","l"," ","d","a","m","p"," ","c","l","o","t","h","s",".","\n","U2022"," ","S","i",
          "p"," ","w","a","t","e","r"," ","o","r"," ","e","l","e","c","t","r","o","l","y","t","e",
          " ","s","o","l","u","t","i","o","n"," ","s","l","o","w","l","y",".","\n","\n","*","*",
          "W","h","e","n"," ","t","o"," ","S","e","e","k"," ","M","e","d","i","c","a","l"," ","H",
          "e","l","p","*","*","\n","U2022"," ","V","o","m","i","t","i","n","g"," ","o","r"," ",
          "c","o","n","f","u","s","i","o","n"," ","d","e","v","e","l","o","p","s",".","\n",
          "U2022"," ","B","o","d","y"," ","t","e","m","p","e","r","a","t","u","r","e"," ","s","t",
          "a","y","s"," ","a","b","o","v","e"," ","3","8","U00B0","C"," ","(","1","0","0",".","4",
          "U00B0","F",")",".">>],
    [context |-> <<"f","l","u","_","l","i","k","e","_","i","l","l","n","e","s","s">>,
     text |->
        <<"*","*","P","o","s","s","i","b","l","e"," ","c","a","u","s","e",":","*","*"," ","v","i",
          "r","a","l"," ","i","n","f","e","c","t","i","o","n"," ","o","r"," ","s","e","a","s","o",
          "n","a","l"," ","f","l","u",".","\n","\n","U26A0","UFE0F"," ","*","*","S","e","l","f",
          "-","c","a","r","e","*","*","\n","U2022"," ","R","e","s","t"," ","a","n","d"," ","s",
          "t","a","y"," ","h","y","d","r","a","t","e","d",".","\n","U2022"," ","T","a","k","e",
          " ","p","a","r","a","c","e","t","a","m","o","l","/","a","c","e","t","a","m","i","n","o",
          "p","h","e","n"," ","f","o","r"," ","f","e","v","e","r"," ","i","f"," ","n","e","e","d",
          "e","d",".","\n","U2022"," ","D","r","i","n","k"," ","w","a","r","m"," ","f","l","u",
          "i","d","s"," ","a","n","d"," ","e","a","t"," ","l","i","g","h","t"," ","f","o","o","d",
          "s",".","\n","\n","*","*","W","h","e","n"," ","t","o"," ","S","e","e","k"," ","M","e",
          "d","i","c","a","l"," ","H","e","l","p","*","*","\n","U2022"," ","F","e","v","e","r",
          " ","p","e","r","s","i","s","t","s"," ","b","e","y","o","n","d"," ","3"," ","d","a","y",
          "s",".","\n","U2022"," ","B","r","e","a","t","h","i","n","g"," ","d","i","f","f","i",
          "c","u","l","t","y"," ","o","r"," ","c","h","e","s","t"," ","p","a","i","n"," ","o","c",
          "c","u","r","s",".">>],
    [context |-> <<"f","o","o","d","_","p","o","i","s","o","n","i","n","g">>,
     text |->
        <<"*","*","P","o","s","s","i","b","l","e"," ","c","a","u","s","e",":","*","*"," ","c","o",
          "n","t","a","m","i","n","a","t","e","d"," ","f","o","o","d"," ","o","r"," ","w","a","t",
          "e","r",".","\n","\n","U26A0","UFE0F"," ","*","*","C","a","r","e"," ","S","t","e","p",
          "s","*","*","\n","U2022"," ","D","r","i","n","k"," ","w","a","t","e","r"," ","o","r",
          " ","O","R","S"," ","t","o"," ","p","r","e","v","e","n","t"," ","d","e","h","y","d","r",
          "a","t","i","o","n",".","\n","U2022"," ","A","v","o","i","d"," ","d","a","i","r","y",
          ","," ","c","a","f","f","e","i","n","e",","," ","a","n","d"," ","h","e","a","v","y"," ",
          "f","o","o","d","s",".","\n","U2022"," ","R","e","s","t"," ","u","n","t","i","l"," ",
          "r","e","c","o","v","e","r","y",".","\n","\n","*","*","W","h","e","n"," ","t","o"," ",
          "S","e","e","k"," ","M","e","d","i","c","a","l"," ","H","e","l","p","*","*","\n",
          "U2022"," ","S","e","v","e","r","e"," ","a","b","d","o","m","i","n","a","l"," ","p","a",
          "i","n"," ","o","r"," ","b","l","o","o","d"," ","i","n"," ","s","t","o","o","l",".",
          "\n","U2022"," ","V","o","m","i","t","i","n","g"," ","l","a","s","t","s"," ","m","o",
          "r","e"," ","t","h","a","n"," ","2","4"," ","h","o","u","r","s",".">>],
    [context |-> <<"f","e","v","e","r">>,
     text |->
        <<"*","*","P","o","s","s","i","b","l","e"," ","c","a","u","s","e",":","*","*"," ","i","n",
          "f","e","c","t","i","o","n",","," ","f","l","u",","," ","o","r"," ","h","e","a","t"," ",
          "i","l","l","n","e","s","s",".","\n","\n","U26A0","UFE0F"," ","*","*","C","a","r","e",
          "*","*","\n","U2022"," ","S","t","a","y"," ","h","y","d","r","a","t","e","d"," ","a",
          "n","d"," ","r","e","s","t",".","\n","U2022"," ","A","p","p","l","y"," ","a"," ","c",
          "o","o","l",","," ","d","a","m","p"," ","c","l","o","t","h"," ","t","o"," ","f","o","r",
          "e","h","e","a","d",".","\n","U2022"," ","T","a","k","e"," ","f","e","v","e","r"," ",
          "m","e","d","i","c","a","t","i","o","n"," ","i","f"," ","r","e","c","o","m","m","e","n",
          "d","e","d",".","\n","\n","*","*","W","h","e","n"," ","t","o"," ","S","e","e","k"," ",
          "M","e","d","i","c","a","l"," ","H","e","l","p","*","*","\n","U2022"," ","F","e","v",
          "e","r"," ","g","r","e","a","t","e","r"," ","t","h","a","n"," ","3","9","U00B0","C"," ",
          "(","1","0","2","U00B0","F",")"," ","o","r"," ","l","a","s","t","s"," ","m","o","r","e",
          " ","t","h","a","n"," ","3"," ","d","a","y","s",".","\n","U2022"," ","T","h","e","r",
          "e","'","s"," ","p","e","r","s","i","s","t","e","n","t"," ","v","o","m","i","t","i","n",
          "g"," ","o","r"," ","c","o","n","f","u","s","i","o","n",".">>]
>>

\* _generate_fallback_response: the text before the context name
FallbackLead ==
    <<"B","a","s","e","d"," ","o","n"," ","y","o","u","r"," ","s","y","m","p","t","o","m","s",",",
      " ","t","h","i","s"," ","m","a","y"," ","i","n","d","i","c","a","t","e"," ","*","*">>

\* _generate_fallback_response: the text between the context name and the canned block
FallbackAfterName ==
    <<"*","*",".","\n","\n">>

\* _generate_fallback_response: the text behind the canned block
FallbackNotes ==
    <<"\n","\n","*","*","A","d","d","i","t","i","o","n","a","l"," ","N","o","t","e","s","*","*",
      "\n","T","h","i","s"," ","i","s"," ","g","e","n","e","r","a","l"," ","f","i","r","s","t",
      " ","a","i","d"," ","g","u","i","d","a","n","c","e","."," ","I","f"," ","s","y","m","p","t",
      "o","m","s"," ","w","o","r","s","e","n"," ","o","r"," ","y","o","u","'","r","e"," ","u","n",
      "s","u","r","e",","," ","s","e","e","k"," ","p","r","o","f","e","s","s","i","o","n","a","l",
      " ","m","e","d","i","c","a","l"," ","a","d","v","i","c","e",".">>

\* _generate_fallback_response: the general fallback before the query
GeneralLead ==
    <<"I"," ","c","o","u","l","d","n","'","t"," ","f","i","n","d"," ","a"," ","d","i","r","e","c",
      "t"," ","m","a","t","c","h"," ","f","o","r",":"," ","\"">>

\* _generate_fallback_response: the general fallback behind the query
GeneralSteps ==
    <<"\"",".","\n","\n","U26A0","UFE0F"," ","*","*","G","e","n","e","r","a","l"," ","F","i","r",
      "s","t"," ","A","i","d"," ","S","t","e","p","s","*","*","\n","1","."," ","E","n","s","u",
      "r","e"," ","s","a","f","e","t","y"," ","a","n","d"," ","c","h","e","c","k"," ","r","e","s",
      "p","o","n","s","i","v","e","n","e","s","s",".","\n","2","."," ","C","a","l","l"," ","e",
      "m","e","r","g","e","n","c","y"," ","s","e","r","v","i","c","e","s"," ","i","f"," ","p","a",
      "i","n",","," ","b","l","e","e","d","i","n","g",","," ","o","r"," ","c","o","n","f","u","s",
      "i","o","n"," ","i","s"," ","s","e","v","e","r","e",".","\n","3","."," ","P","r","o","v",
      "i","d","e"," ","r","e","s","t",","," ","h","y","d","r","a","t","i","o","n",","," ","a","n",
      "d"," ","r","e","a","s","s","u","r","a","n","c","e",".","\n","4","."," ","M","o","n","i",
      "t","o","r"," ","s","y","m","p","t","o","m","s"," ","a","n","d"," ","a","v","o","i","d"," ",
      "u","n","n","e","c","e","s","s","a","r","y"," ","m","o","v","e","m","e","n","t",".","\n",
      "\n","*","*","A","d","d","i","t","i","o","n","a","l"," ","N","o","t","e","s","*","*","\n",
      "I","f"," ","y","o","u"," ","f","e","e","l"," ","w","o","r","s","e"," ","o","r"," ","t","h",
      "e"," ","i","s","s","u","e"," ","p","e","r","s","i","s","t","s",","," ","c","o","n","s","u",
      "l","t"," ","a"," ","d","o","c","t","o","r"," ","i","m","m","e","d","i","a","t","e","l","y",
      ".">>

LowerToUpper ==
    [c \in {UpperToLower[u] : u \in DOMAIN UpperToLower} |->
        CHOOSE u \in DOMAIN UpperToLower : UpperToLower[u] = c]

IsLetter(c) == c \in DOMAIN UpperToLower \/ c \in DOMAIN LowerToUpper

\* str.title(): a letter behind a non-letter is upper-cased, any other letter lower-cased
TitleCase(s) ==
    [i \in 1..Len(s) |->
        IF i = 1 \/ ~IsLetter(s[i - 1])
        THEN (IF s[i] \in DOMAIN LowerToUpper THEN LowerToUpper[s[i]] ELSE s[i])
        ELSE (IF s[i] \in DOMAIN UpperToLower THEN UpperToLower[s[i]] ELSE s[i])]

\* the keys of context_map found in query_lower, by their place in the table
MatchingKeys(query_lower) ==
    {i \in 1..Len(context_map) : Contains(query_lower, context_map[i].key)}

\* the last key of the table that query_lower holds decides: the loop without its break
LastMatch(keys) == CHOOSE x \in keys : \A y \in keys : x >= y

\* the first key of the table that query_lower holds decides
FirstMatch(keys) == Min(keys)

\* the loop of _generate_fallback_response over the table: detected_context (<<>> for None)
detected_context(query) ==
    LET keys == MatchingKeys(Lower(query))
    IN  IF keys = {} THEN <<>> ELSE context_map[FirstMatch(keys)].context

\* responses[context]
ResponseFor(context) ==
    LET i == CHOOSE k \in 1..Len(responses) : responses[k].context = context
    IN  responses[i].text

\* FirstAidRAGAssistant._generate_fallback_response
generate_fallback_response(query) ==
    LET context == detected_context(query)
    IN  IF context # <<>> /\ \E k \in 1..Len(responses) : responses[k].context = context
        THEN FallbackLead \o TitleCase(Replace(context, <<"_">>, <<" ">>)) \o FallbackAfterName
                 \o ResponseFor(context) \o FallbackNotes
        ELSE GeneralLead \o query \o GeneralSteps

(***************************************************************************)
(* Retrieval: the chunks of the document store, the vector index, and the  *)
(* stages of hybrid_search and answer_query.                               *)
(***************************************************************************)

\* db['chunks']: the knowledge base (title, category and severity are carried
\* through unchanged and left out)
ChunkDocs == <<
    [chunk_id |-> 1,
     text |-> <<"A","p","p","l","y"," ","f","i","r","m"," ","p","r","e","s","s","u","r","e"," ","t","o"," ","s","e","v","e","r","e"," ","b","l","e","e","d","i","n","g">>,
     source |-> <<"R","e","d"," ","C","r","o","s","s",":"," ","b","l","e","e","d","i","n","g">>],
    [chunk_id |-> 2,
     text |-> <<"K","e","e","p"," ","t","h","e"," ","s","n","a","k","e"," ","b","i","t","e"," ","b","e","l","o","w"," ","h","e","a","r","t"," ","l","e","v","e","l">>,
     source |-> <<"N","H","S",":"," ","s","n","a","k","e"," ","b","i","t","e","s">>]
>>

ChunkIds == {ChunkDocs[i].chunk_id : i \in 1..Len(ChunkDocs)}

ChunkDoc(chunk_id) == ChunkDocs[CHOOSE i \in 1..Len(ChunkDocs) : ChunkDocs[i].chunk_id = chunk_id]

\* the embeddings the encoder can return, told apart only by what the index answers
Vectors == {0, 1}

\* generate_embedding: the encoder is a fixed function of the text (here of its length)
generate_embedding(text) == Len(text) % Cardinality(Vectors)

\* the similarity scores the index can report, in hundredths
MatchScores == {55, 90}

\* the states of the vector index: the chunks it holds and, for each, its score
\* against each embedding
IndexStates == UNION {[D -> [Vectors -> MatchScores]] : D \in SUBSET ChunkIds}

\* db['chunks'] next to index idx: ingestion puts a chunk into both
ChunksCollection(idx) == SelectSeq(ChunkDocs, LAMBDA d : d.chunk_id \in DOMAIN idx)

\* the sequence in descending order of field f, equal elements in reverse order
SortDescByTiesReversed(seq, f) ==
    LET Rank(i) == 1 + Cardinality({j \in 1..Len(seq) :
                           seq[j][f] > seq[i][f] \/ (seq[j][f] = seq[i][f] /\ j > i)})
    IN  [r \in 1..Len(seq) |-> seq[CHOOSE i \in 1..Len(seq) : Rank(i) = r]]

\* the sequence in descending order of field f; equal elements keep their order
\* (list.sort(key=..., reverse=True) is stable)
SortDescBy(seq, f) ==
    LET Rank(i) == 1 + Cardinality({j \in 1..Len(seq) :
                           seq[j][f] > seq[i][f] \/ (seq[j][f] = seq[i][f] /\ j < i)})
    IN  [r \in 1..Len(seq) |-> seq[CHOOSE i \in 1..Len(seq) : Rank(i) = r]]

\* a set of records as a sequence, in ascending order of chunk_id
RECURSIVE ByChunkId(_)
ByChunkId(S) ==
    IF S = {} THEN <<>>
    ELSE LET m == CHOOSE x \in S : \A y \in S : x.chunk_id <= y.chunk_id
         IN  <<m>> \o ByChunkId(S \ {m})

\* index.query(vector=..., top_k=..., include_metadata=True).matches: the top_k
\* chunks of the index by score, best first
IndexQuery(idx, vector, top_k) ==
    Take(SortDescBy(ByChunkId({[chunk_id |-> c, score |-> idx[c][vector]] : c \in DOMAIN idx}),
                    "score"),
         top_k)

\* _build_chunk_from_match
build_chunk_from_match(match) ==
    [chunk_id |-> match.chunk_id, score |-> match.score,
     text |-> ChunkDoc(match.chunk_id).text, source |-> ChunkDoc(match.chunk_id).source]

\* chunk_id in seen_chunk_ids, taken for false
SeenNever(all_chunks, chunk_id) == FALSE

\* chunk_id in seen_chunk_ids: seen_chunk_ids holds the ids of all_chunks
Seen(all_chunks, chunk_id) == \E i \in 1..Len(all_chunks) : all_chunks[i].chunk_id = chunk_id

\* match.score >= min_score, taken for true
PassesAnyScore(score, min_score) == TRUE

\* match.score >= min_score
PassesMinScore(score, min_score) == score >= min_score

\* a document with field f set to v
WithField(d, f, v) == [x \in (DOMAIN d) \cup {f} |-> IF x = f THEN v ELSE d[x]]

\* the loop over results.matches of a semantic stage of hybrid_search
RECURSIVE AddMatches(_, _, _, _)
AddMatches(all_chunks, matches, min_score, search_method) ==
    IF matches = <<>> THEN all_chunks
    ELSE AddMatches(
             IF PassesMinScore(Head(matches).score, min_score)
                /\ ~Seen(all_chunks, Head(matches).chunk_id)
             THEN Append(all_chunks,
                         WithField(build_chunk_from_match(Head(matches)),
                                   "search_method", search_method))
             ELSE all_chunks,
             Tail(matches), min_score, search_method)

\* a word without the characters that are no letters (the text search ignores them)
LettersOf(w) == SelectSeq(w, IsLetter)

\* the words of a text as the text search sees them
SearchWords(text) == {LettersOf(Split(Lower(text))[i]) : i \in 1..Len(Split(Lower(text)))}

\* the score _keyword_search_mongodb gives every document it returns
KeywordSearchScore == 60

\* the score hybrid_search gives a keyword_fallback candidate
KeywordFallbackScore == 65

\* chunks_collection.find({"$text": {"$search": ...}}).sort(textScore).limit(limit), and the
\* list _keyword_search_mongodb builds from it: the documents that hold a search term,
\* those holding more terms first
keyword_search_mongodb(chunks_collection, keywords, limit) ==
    LET terms == {LettersOf(keywords[i]) : i \in 1..Len(keywords)} \ {<<>>}
        Hits(d) == Cardinality(terms \cap SearchWords(d.text))
        found == SelectSeq(chunks_collection, LAMBDA d : Hits(d) > 0)
        ranked == SortDescBy([i \in 1..Len(found) |-> WithField(found[i], "hits", Hits(found[i]))],
                             "hits")
    IN  [i \in 1..Len(Take(ranked, limit)) |->
            [chunk_id |-> ranked[i].chunk_id, text |-> ranked[i].text,
             source |-> ranked[i].source, score |-> KeywordSearchScore]]

\* the loop over keyword_chunks of hybrid_search
RECURSIVE AddKeywordChunks(_, _)
AddKeywordChunks(all_chunks, keyword_chunks) ==
    IF keyword_chunks = <<>> THEN all_chunks
    ELSE AddKeywordChunks(
             IF ~Seen(all_chunks, Head(keyword_chunks).chunk_id)
             THEN Append(all_chunks,
                         [WithField(Head(keyword_chunks), "search_method", "keyword_fallback")
                             EXCEPT !.score = KeywordFallbackScore])
             ELSE all_chunks,
             Tail(keyword_chunks))

\* the boost of one shared keyword, in hundredths (overlap * 0.02)
OverlapWeight == 2

\* set(seq)
ToSet(seq) == {seq[i] : i \in 1..Len(seq)}

\* the keyword overlap rerank_chunks computes for a chunk
KeywordOverlap(chunk, query) ==
    Cardinality(ToSet(extract_keywords(query)) \cap ToSet(extract_keywords(chunk.text)))

\* FirstAidRAGAssistant.rerank_chunks
rerank_chunks(chunks, query) ==
    IF chunks = <<>> THEN chunks
    ELSE SortDescBy(
             [i \in 1..Len(chunks) |->
                 WithField(WithField(chunks[i], "keyword_overlap", KeywordOverlap(chunks[i], query)),
                           "boosted_score",
                           chunks[i].score + KeywordOverlap(chunks[i], query) * OverlapWeight)],
             "boosted_score")

\* min_score of hybrid_search: answer_query passes none, the default holds
DefaultMinScore == 60

\* top_k of the index query of the expansion stage
ExpansionTopK == 5

\* top_k of the index query of the second-chance stage
SecondChanceTopK == 3

\* len(all_chunks) < 3: below this many candidates the keyword stage runs
KeywordStageBelow == 3

\* limit of the keyword search
KeywordLimit == 5

\* the loop over res.matches of the second-chance stage of answer_query
RECURSIVE AddSecondChance(_, _)
AddSecondChance(extra_chunks, matches) ==
    IF matches = <<>> THEN extra_chunks
    ELSE AddSecondChance(
             IF ~Seen(extra_chunks, Head(matches).chunk_id)
             THEN Append(extra_chunks,
                         WithField(build_chunk_from_match(Head(matches)),
                                   "search_method", "semantic_expanded_final"))
             ELSE extra_chunks,
             Tail(matches))

\* sum(c['boosted_score'] for c in chunks)
RECURSIVE SumBoosted(_)
SumBoosted(chunks) ==
    IF chunks = <<>> THEN 0 ELSE Head(chunks).boosted_score + SumBoosted(Tail(chunks))

\* avg_score > 0.80
HighThreshold == 80

\* avg_score > 0.65
MediumThreshold == 65

\* the confidence with the first comparison turned around: avg_score < 0.80
ConfidenceHighBelow(chunks) ==
    IF SumBoosted(chunks) < HighThreshold * Len(chunks) THEN "HIGH"
    ELSE IF SumBoosted(chunks) > MediumThreshold * Len(chunks) THEN "MEDIUM"
    ELSE "LOW"

\* the confidence answer_query computes: avg_score is SumBoosted / len, in hundredths
Confidence(chunks) ==
    IF SumBoosted(chunks) > HighThreshold * Len(chunks) THEN "HIGH"
    ELSE IF SumBoosted(chunks) > MediumThreshold * Len(chunks) THEN "MEDIUM"
    ELSE "LOW"

\* round(avg_score, 3), in thousandths
AvgRelevance(chunks) ==
    (2 * 10 * SumBoosted(chunks) + Len(chunks)) \div (2 * Len(chunks))

\* chunks[:6] of the sources
MaxSources == 6

Unknown == <<"U","n","k","n","o","w","n">>

\* c['source'].split(':')[0] if c['source'] else 'Unknown'
SourceName(source) ==
    IF source = <<>> THEN Unknown
    ELSE SubSeq(source, 1, Min({k \in 1..Len(source) : source[k] = ":"} \cup {Len(source) + 1}) - 1)

\* the sources of response_obj
Sources(chunks) ==
    [i \in 1..Len(Take(chunks, MaxSources)) |->
        [source |-> SourceName(chunks[i].source), relevance_score |-> chunks[i].score,
         search_method |-> chunks[i].search_method]]

\* generate_response_with_groq: the message of the except branch before str(e)
GenerationErrorLead ==
    <<"E","r","r","o","r"," ","g","e","n","e","r","a","t","i","n","g"," ","r","e","s","p","o","n",
      "s","e",":"," ">>

\* generate_response_with_groq: the message of the except branch behind str(e)
GenerationErrorAdvice ==
    <<"\n","\n","F","o","r"," ","a","n","y"," ","m","e","d","i","c","a","l"," ","e","m","e","r",
      "g","e","n","c","y",","," ","c","a","l","l"," ","9","1","1","/","9","9","9"," ","i","m","m",
      "e","d","i","a","t","e","l","y",".","\n","\n","I","f"," ","t","h","i","s"," ","i","s"," ",
      "a","n"," ","e","m","e","r","g","e","n","c","y",":","\n","1","."," ","C","a","l","l"," ",
      "e","m","e","r","g","e","n","c","y"," ","s","e","r","v","i","c","e","s"," ","(","9","1","1",
      "/","9","9","9",")","\n","2","."," ","S","t","a","y"," ","c","a","l","m"," ","a","n","d",
      " ","f","o","l","l","o","w"," ","d","i","s","p","a","t","c","h","e","r"," ","i","n","s","t",
      "r","u","c","t","i","o","n","s","\n","3","."," ","I","f"," ","t","r","a","i","n","e","d",
      ","," ","p","r","o","v","i","d","e"," ","a","p","p","r","o","p","r","i","a","t","e"," ","f",
      "i","r","s","t"," ","a","i","d"," ","u","n","t","i","l"," ","h","e","l","p"," ","a","r","r",
      "i","v","e","s">>

\* generate_response_with_groq, the except branch: the message for the exception e
generation_error_response(e) ==
    clean_response_format(GenerationErrorLead \o e \o GenerationErrorAdvice)

(***************************************************************************)
(* The document store: the conversations and chat_history collections,     *)
(* each a sequence of documents in insertion order, and the clock behind   *)
(* datetime.utcnow().                                                      *)
(***************************************************************************)

VARIABLES
    conversations,   \* db['conversations']
    chat_history,    \* db['chat_history']
    now,             \* the last value datetime.utcnow() returned
    nextId,          \* the next uuid4-made conversation id
    ccpc,            \* conversation.py: where each caller stands
    cc,              \* conversation.py: each caller's arguments and locals
    calls,           \* create_conversation calls made so far
    updates,         \* update_conversation calls made so far
    index,           \* the vector index (and with it the chunks the document store holds)
    offered,         \* the requests the clients of /api/query may send
    requestsLeft,    \* requests the clients may still send
    faultsLeft,      \* failures the collaborators may still have
    qpc,             \* query_endpoint / answer_query: where the request stands
    rq,              \* query_endpoint / answer_query: the request, the locals, what happened
    http,            \* the response the endpoint sent last
    calc             \* a function of the code called on its own: arguments and return value

\* the variables of the conversation utilities' callers
convVars == <<ccpc, cc, calls, updates>>

\* the variables of the query endpoint
queryVars == <<index, offered, requestsLeft, faultsLeft, qpc, rq, http>>

Users == {"u1", "u2"}

\* callers of the conversation utilities that may run at once
Procs == {1, 2}

\* the max_conversations argument the callers pass
MaxConvArg == 3

\* create_conversation calls a behaviour may make: enough to pass the limit
MaxCalls == MaxConvArg + 3

\* update_conversation calls a behaviour may make
MaxUpdates == 1

\* the query texts the callers of the conversation utilities pass
ConvQueries == { <<"h","e","l","p">> }

\* len(query) > 60 of the title
TitleLen == 60

\* query[:60] + "..." if len(query) > 60 else query
Title(query) ==
    IF Len(query) > TitleLen THEN SubSeq(query, 1, TitleLen) \o <<".", ".", ".">> ELSE query

\* a reading of datetime.utcnow(): later than the last one
ClockReadings == {now + 1}

\* collection.count_documents({"user_id": user_id})
CountUser(coll, user_id) ==
    Cardinality({i \in 1..Len(coll) : "user_id" \in DOMAIN coll[i] /\ coll[i].user_id = user_id})

\* the sequence without its i-th element
RemoveAt(seq, i) == SubSeq(seq, 1, i - 1) \o SubSeq(seq, i + 1, Len(seq))

\* collection.delete_one({"conversation_id": conv_id}): the first matching document goes
DeleteOneById(coll, conv_id) ==
    IF \E i \in 1..Len(coll) : coll[i].conversation_id = conv_id
    THEN RemoveAt(coll, CHOOSE i \in 1..Len(coll) :
                            /\ coll[i].conversation_id = conv_id
                            /\ \A j \in 1..(i - 1) : coll[j].conversation_id # conv_id)
    ELSE coll

\* collection.delete_many({"conversation_id": conv_id})
DeleteManyById(coll, conv_id) ==
    SelectSeq(coll, LAMBDA d : d.conversation_id # conv_id)

\* the unique index on conversation_id (main.py): an insert of a second document
\* with the same conversation_id raises
DuplicateKey(coll, conv_id) ==
    \E i \in 1..Len(coll) : coll[i].conversation_id = conv_id

\* find({"user_id": user_id}).sort("created_at", 1).limit(n): the possible results.
\* Documents with equal created_at come in any order.
OldestConvs(coll, user_id, n) ==
    LET mine == {i \in 1..Len(coll) : "user_id" \in DOMAIN coll[i] /\ coll[i].user_id = user_id}
        k    == IF n < Cardinality(mine) THEN n ELSE Cardinality(mine)
    IN  { [j \in 1..k |-> coll[f[j]]] :
            f \in { g \in [1..k -> mine] :
                      /\ \A a, b \in 1..k : a < b => g[a] # g[b]
                      /\ \A a, b \in 1..k : a < b => coll[g[a]].created_at <= coll[g[b]].created_at
                      /\ \A i \in mine : (\A a \in 1..k : g[a] # i) =>
                             \A a \in 1..k : coll[g[a]].created_at <= coll[i].created_at } }

\* to_delete_count one too small
ToDeleteCountOneLess(conv_count, max_conversations) == conv_count - max_conversations

\* to_delete_count of manage_conversation_limit
ToDeleteCount(conv_count, max_conversations) == conv_count - max_conversations + 1

\* conv_count >= max_conversations of manage_conversation_limit
OverLimit(conv_count, max_conversations) == conv_count >= max_conversations

\* the caller is between two exchanges
CcIdle(p) == ccpc[p] = "idle"

\* create_conversation is called: the arguments are bound
CreateConversationCall(p) ==
    /\ CcIdle(p)
    /\ calls < MaxCalls
    /\ \E u \in Users, q \in ConvQueries :
          cc' = [cc EXCEPT ![p] =
                   [op |-> "create", conversation_id |-> nextId, user_id |-> u, query |-> q,
                    max_conversations |-> MaxConvArg, conv_count |-> 0,
                    oldest_convs |-> <<>>, current_timestamp |-> 0,
                    entry_conversations |-> conversations,
                    entry_chat_history |-> chat_history]]
    /\ nextId' = nextId + 1
    /\ calls' = calls + 1
    /\ ccpc' = [ccpc EXCEPT ![p] = "count"]
    /\ UNCHANGED <<conversations, chat_history, now, updates>>
    /\ UNCHANGED queryVars
    /\ UNCHANGED calc

\* manage_conversation_limit: conv_count = count_documents(...) and the test on it
ManageCount(p) ==
    /\ ccpc[p] = "count"
    /\ LET n == CountUser(conversations, cc[p].user_id)
       IN  /\ cc' = [cc EXCEPT ![p].conv_count = n]
           /\ ccpc' = [ccpc EXCEPT ![p] =
                         IF OverLimit(n, cc[p].max_conversations) THEN "find" ELSE "timestamp"]
    /\ UNCHANGED <<conversations, chat_history, now, nextId, calls, updates>>
    /\ UNCHANGED queryVars
    /\ UNCHANGED calc

\* manage_conversation_limit: oldest_convs = list(find(...).sort(...).limit(to_delete_count))
ManageFind(p) ==
    /\ ccpc[p] = "find"
    /\ \E found \in OldestConvs(conversations, cc[p].user_id,
                                ToDeleteCount(cc[p].conv_count, cc[p].max_conversations)) :
          /\ cc' = [cc EXCEPT ![p].oldest_convs = found]
          /\ ccpc' = [ccpc EXCEPT ![p] = IF found = <<>> THEN "timestamp" ELSE "delete_conv"]
    /\ UNCHANGED <<conversations, chat_history, now, nextId, calls, updates>>
    /\ UNCHANGED queryVars
    /\ UNCHANGED calc

\* manage_conversation_limit: conversations_collection.delete_one for the next of oldest_convs
ManageDeleteConv(p) ==
    /\ ccpc[p] = "delete_conv"
    /\ conversations' = DeleteOneById(conversations, Head(cc[p].oldest_convs).conversation_id)
    /\ ccpc' = [ccpc EXCEPT ![p] = "delete_hist"]
    /\ UNCHANGED <<chat_history, now, nextId, cc, calls, updates>>
    /\ UNCHANGED queryVars
    /\ UNCHANGED calc

\* manage_conversation_limit: chat_history_collection.delete_many for the same conversation
ManageDeleteHist(p) ==
    /\ ccpc[p] = "delete_hist"
    /\ chat_history' = DeleteManyById(chat_history, Head(cc[p].oldest_convs).conversation_id)
    /\ cc' = [cc EXCEPT ![p].oldest_convs = Tail(@)]
    /\ ccpc' = [ccpc EXCEPT ![p] =
                  IF Tail(cc[p].oldest_convs) = <<>> THEN "timestamp" ELSE "delete_conv"]
    /\ UNCHANGED <<conversations, now, nextId, calls, updates>>
    /\ UNCHANGED queryVars
    /\ UNCHANGED calc

\* create_conversation: current_timestamp = datetime.utcnow().isoformat()
CreateTimestamp(p) ==
    /\ ccpc[p] = "timestamp"
    /\ \E t \in ClockReadings :
          /\ now' = t
          /\ cc' = [cc EXCEPT ![p].current_timestamp = t]
    /\ ccpc' = [ccpc EXCEPT ![p] = "insert"]
    /\ UNCHANGED <<conversations, chat_history, nextId, calls, updates>>
    /\ UNCHANGED queryVars
    /\ UNCHANGED calc

\* the document create_conversation inserts
NewConversation(conversation_id, user_id, query, current_timestamp) ==
    [conversation_id |-> conversation_id, user_id |-> user_id, title |-> Title(query),
     message_count |-> 2, last_query |-> query,
     created_at |-> current_timestamp, updated_at |-> current_timestamp]

\* create_conversation: conversations_collection.insert_one
CreateInsert(p) ==
    /\ ccpc[p] = "insert"
    /\ IF DuplicateKey(conversations, cc[p].conversation_id)
       THEN /\ ccpc' = [ccpc EXCEPT ![p] = "raised"]
            /\ UNCHANGED conversations
       ELSE /\ conversations' = Append(conversations,
                   NewConversation(cc[p].conversation_id, cc[p].user_id, cc[p].query,
                                   cc[p].current_timestamp))
            /\ ccpc' = [ccpc EXCEPT ![p] = "created"]
    /\ UNCHANGED <<chat_history, now, nextId, cc, calls, updates>>
    /\ UNCHANGED queryVars
    /\ UNCHANGED calc

\* the conversation ids a caller can name: those handed out so far
KnownIds == 1..(nextId - 1)

\* the two documents save_chat_messages inserts
ChatMessages(conversation_id, query, response, sources, confidence_score, current_timestamp) ==
    << [conversation_id |-> conversation_id, role |-> "user", content |-> query,
        timestamp |-> current_timestamp],
       [conversation_id |-> conversation_id, role |-> "assistant", content |-> response,
        sources |-> sources, confidence_score |-> confidence_score,
        timestamp |-> current_timestamp] >>

\* the arguments and locals of a caller that is in no call
NoCall ==
    [op |-> "none", conversation_id |-> 0, user_id |-> "none", query |-> <<>>,
     max_conversations |-> 0, conv_count |-> 0, oldest_convs |-> <<>>,
     current_timestamp |-> 0, entry_conversations |-> <<>>, entry_chat_history |-> <<>>]

\* a document with field f set to v ($set)
SetField(d, f, v) == [x \in (DOMAIN d) \cup {f} |-> IF x = f THEN v ELSE d[x]]

\* a document with field f raised by n ($inc: a missing field counts as 0)
IncField(d, f, n) == SetField(d, f, IF f \in DOMAIN d THEN d[f] + n ELSE n)

\* collection.update_one({"conversation_id": cid}, {"$set": {last_query, updated_at},
\* "$inc": {"message_count": 2}}): the first matching document is updated
UpdateOneById(coll, cid, query, current_timestamp) ==
    [i \in 1..Len(coll) |->
        IF /\ coll[i].conversation_id = cid
           /\ \A j \in 1..(i - 1) : coll[j].conversation_id # cid
        THEN IncField(SetField(SetField(coll[i], "last_query", query),
                               "updated_at", current_timestamp), "message_count", 2)
        ELSE coll[i]]

\* update_conversation, whole: the timestamp and the update_one
UpdateConversation(p) ==
    /\ CcIdle(p)
    /\ updates < MaxUpdates
    /\ \E cid \in KnownIds, q \in ConvQueries, t \in ClockReadings :
          /\ now' = t
          /\ conversations' = UpdateOneById(conversations, cid, q, t)
          /\ cc' = [cc EXCEPT ![p] = [NoCall EXCEPT !.op = "update", !.conversation_id = cid,
                                                     !.query = q]]
    /\ updates' = updates + 1
    /\ ccpc' = [ccpc EXCEPT ![p] = "updated"]
    /\ UNCHANGED <<chat_history, nextId, calls>>
    /\ UNCHANGED queryVars
    /\ UNCHANGED calc

\* save_chat_messages, whole: the timestamp and the insert_many.  The caller saves the
\* exchange once the conversation is created or updated (the order of main.py 347-394).
SaveChatMessages(p) ==
    /\ ccpc[p] \in {"created", "updated"}
    /\ \E t \in ClockReadings :
          /\ now' = t
          /\ chat_history' = chat_history \o
                ChatMessages(cc[p].conversation_id, cc[p].query, cc[p].query, <<>>, 0, t)
    /\ ccpc' = [ccpc EXCEPT ![p] = "idle"]
    /\ UNCHANGED <<conversations, nextId, cc, calls, updates>>
    /\ UNCHANGED queryVars
    /\ UNCHANGED calc

ConvStep(p) ==
    \/ CreateConversationCall(p)
    \/ ManageCount(p)
    \/ ManageFind(p)
    \/ ManageDeleteConv(p)
    \/ ManageDeleteHist(p)
    \/ CreateTimestamp(p)
    \/ CreateInsert(p)
    \/ SaveChatMessages(p)
    \/ UpdateConversation(p)

(***************************************************************************)
(* POST /api/query: query_endpoint (main.py) and answer_query (rag.py).    *)
(* The handler advances by one step per call to a collaborator (encoder,   *)
(* vector index, document store, generation service, clock); a collaborator*)
(* may fail while faultsLeft allows.  Failures inside _build_chunk_from_-  *)
(* match are left out.                                                     *)
(***************************************************************************)

\* current_user of a request that carries no token
Guest == "guest"

\* conversation_id = None
None == 0

Help == <<"H","e","l","p">>

SnakeQuery == <<"s","n","a","k","e"," ","b","i","t"," ","m","y"," ","a","n","k","l","e">>

BleedingQuery == <<"S","e","v","e","r","e"," ","b","l","e","e","d","i","n","g","?">>

Queries == {Help, SnakeQuery, BleedingQuery}

\* top_k of QueryRequest: the default
DefaultTopK == 10

\* the top_k values clients send
TopKs == {1, DefaultTopK}

\* the min_score values clients send (QueryRequest.min_score: query_endpoint never reads it)
MinScores == {DefaultMinScore}

\* the conversation the store of Init already holds
StoredConversationId == None + 1

\* the requests clients may send
Requests ==
    [query : Queries, conversation_id : {None, StoredConversationId}, top_k : TopKs,
     min_score : MinScores, user : {Guest, "u1"}]

\* the texts the generation service may return
GroqTexts == { <<"*","*","C","a","l","l"," ","9","1","1","*","*"," ","n","o","w",".">>,
               <<"R","e","s","t",".">> }

\* str(e) of the exceptions the generation service may raise
GenerationErrors == { <<"t","i","m","e","o","u","t">>,
                      <<"r","a","t","e"," ","l","i","m","i","t">> }

\* the failures of collaborators a behaviour may have
MaxFaults == 1

\* the handler's record when no request is in progress
NoRequest ==
    [query |-> <<>>, conversation_id |-> None, top_k |-> 0, min_score |-> 0, user |-> Guest,
     \* min_score of hybrid_search
     hybrid_min_score |-> 0,
     chat_history |-> <<>>, all_chunks |-> <<>>, expanded_queries |-> <<>>, next |-> 0,
     chunks |-> <<>>, extra_chunks |-> <<>>, result |-> <<>>,
     current_timestamp |-> 0, confidence_percentage |-> 0, conv |-> FALSE,
     \* what happened while the request was processed
     failed |-> {}, semantic_matches |-> <<>>, matched |-> <<>>, matched_final |-> <<>>,
     hybrid |-> <<>>,
     searched |-> FALSE, second_chance |-> FALSE, fallback_invoked |-> FALSE,
     generation_called |-> FALSE, outcome |-> "none"]

\* no response sent yet
NoResponse == [status |-> 0]

\* no request in progress, none to come: the state of the endpoint while only the
\* conversation utilities run
QueryIdle ==
    /\ index = <<>>
    /\ offered = {}
    /\ requestsLeft = 0
    /\ faultsLeft = 0
    /\ qpc = "idle"
    /\ rq = NoRequest
    /\ http = NoResponse

\* whether a call that swallows or propagates a failure fails this time
Failures == IF faultsLeft > 0 THEN BOOLEAN ELSE {FALSE}

\* faultsLeft after a call that failed or not
Spent(failed) == IF failed THEN faultsLeft - 1 ELSE faultsLeft

\* the record after the call named label failed or not
Noted(r, failed, label) == IF failed THEN [r EXCEPT !.failed = @ \cup {label}] ELSE r

\* query_endpoint, the except branch: HTTP 500 with the detail of the exception
InternalServerError(detail) == [status |-> 500, detail |-> detail]

\* the matches of a semantic stage that pass the threshold, as the candidates they make
Qualifying(matches, min_score, search_method) ==
    LET passing == SelectSeq(matches, LAMBDA m : PassesMinScore(m.score, min_score))
    IN  [i \in 1..Len(passing) |->
            [chunk_id |-> passing[i].chunk_id, score |-> passing[i].score,
             search_method |-> search_method]]

\* the candidates as chunk_id, score and tag
Brief(chunks) ==
    [i \in 1..Len(chunks) |->
        [chunk_id |-> chunks[i].chunk_id, score |-> chunks[i].score,
         search_method |-> chunks[i].search_method]]

\* hybrid_search, the end: all_chunks.sort(key=score, reverse=True); return all_chunks[:top_k]
HybridResult(all_chunks, top_k) == Take(SortDescBy(all_chunks, "score"), top_k)

\* not chunks / not extra_chunks, taken for any list but the empty one
NoCandidatesBelowTwo(chunks) == Len(chunks) < 2

\* not chunks / not extra_chunks of answer_query
NoCandidates(chunks) == chunks = <<>>

\* expanded[1:] of the second-chance stage is not empty
HasAlternatives(query) == Len(expand_query(preprocess_query(query))) > 1

\* answer_query once hybrid_search returned all_chunks: the rerank and the locals
Searched(r, all_chunks) ==
    [r EXCEPT !.all_chunks = all_chunks,
              !.hybrid = HybridResult(all_chunks, r.top_k),
              !.searched = TRUE,
              !.chunks = rerank_chunks(HybridResult(all_chunks, r.top_k), r.query),
              !.next = 2]

\* answer_query once hybrid_search returned: where it goes on
AfterSearch(r, all_chunks) ==
    IF ~NoCandidates(HybridResult(all_chunks, r.top_k)) THEN "generate"
    ELSE IF HasAlternatives(r.query) THEN "second_chance"
    ELSE "fallback"

\* a request arrives: main.py 326-338, the conversation id and the call of answer_query.
\* answer_query hands hybrid_search the query and top_k: min_score is its default.
QueryRequest ==
    /\ qpc = "idle"
    /\ requestsLeft > 0
    /\ \E r \in offered :
          LET fresh == r.conversation_id = None /\ r.user # Guest
              conversation_id == IF fresh THEN nextId ELSE r.conversation_id
          IN  /\ rq' = [NoRequest EXCEPT !.query = r.query, !.top_k = r.top_k,
                                        !.min_score = r.min_score, !.user = r.user,
                                        !.conversation_id = conversation_id,
                                        !.hybrid_min_score = DefaultMinScore,
                                        !.outcome = "running"]
              /\ nextId' = IF fresh THEN nextId + 1 ELSE nextId
              /\ qpc' = IF conversation_id # None THEN "get_chat_history" ELSE "primary"
    /\ requestsLeft' = requestsLeft - 1
    /\ http' = NoResponse
    /\ UNCHANGED <<conversations, chat_history, now, faultsLeft, index, offered>>
    /\ UNCHANGED convVars
    /\ UNCHANGED calc

\* find({"conversation_id": ...}).sort("timestamp", 1) as role and content: the turns
\* are stored in the order of their timestamps
HistoryOf(coll, conversation_id) ==
    LET turns == SelectSeq(coll, LAMBDA d : d.conversation_id = conversation_id)
    IN  [i \in 1..Len(turns) |-> [role |-> turns[i].role, content |-> turns[i].content]]

\* answer_query: chat_history = self.get_chat_history(conversation_id)
GetChatHistory ==
    /\ qpc = "get_chat_history"
    /\ \E failed \in Failures :
          /\ rq' = [Noted(rq, failed, "get_chat_history") EXCEPT !.chat_history =
                       IF failed THEN <<>> ELSE HistoryOf(chat_history, rq.conversation_id)]
          /\ faultsLeft' = Spent(failed)
    /\ qpc' = "primary"
    /\ UNCHANGED <<conversations, chat_history, now, nextId, index, offered, requestsLeft, http>>
    /\ UNCHANGED convVars
    /\ UNCHANGED calc

\* the calls of a semantic stage of hybrid_search that may fail
SemanticCalls == {"generate_embedding", "index.query"}

\* after a semantic stage of hybrid_search left all_chunks: the next variant, the keyword
\* stage, or the return
AfterSemantic(r, all_chunks, next) ==
    IF next <= Len(r.expanded_queries) THEN "expansion"
    ELSE IF Len(all_chunks) < KeywordStageBelow THEN "keyword"
    ELSE AfterSearch(r, all_chunks)

\* the record after a semantic stage of hybrid_search left all_chunks
SemanticDone(r, all_chunks, next) ==
    IF next <= Len(r.expanded_queries) \/ Len(all_chunks) < KeywordStageBelow
    THEN [r EXCEPT !.all_chunks = all_chunks, !.next = next]
    ELSE Searched(r, all_chunks)

\* hybrid_search, stage 1: the query is embedded and the index queried.  An exception of
\* either call leaves hybrid_search and answer_query and reaches query_endpoint.
PrimarySearch ==
    /\ qpc = "primary"
    /\ \/ LET clean_query == preprocess_query(rq.query)
              matches == IndexQuery(index, generate_embedding(clean_query), rq.top_k)
              all_chunks == AddMatches(<<>>, matches, rq.hybrid_min_score,
                                       "semantic_original")
              r == [rq EXCEPT !.expanded_queries = expand_query(clean_query),
                              !.semantic_matches = matches,
                              !.matched = Qualifying(matches, rq.hybrid_min_score,
                                                     "semantic_original")]
          IN  /\ rq' = SemanticDone(r, all_chunks, 2)
              /\ qpc' = AfterSemantic(r, all_chunks, 2)
              /\ UNCHANGED <<faultsLeft, http>>
       \/ /\ faultsLeft > 0
          /\ faultsLeft' = faultsLeft - 1
          /\ \E call \in SemanticCalls :
                /\ rq' = [rq EXCEPT !.failed = @ \cup {"primary"}, !.outcome = "raised"]
                /\ http' = InternalServerError(call)
          /\ qpc' = "idle"
    /\ UNCHANGED <<conversations, chat_history, now, nextId, index, offered, requestsLeft>>
    /\ UNCHANGED convVars
    /\ UNCHANGED calc

\* hybrid_search, stage 2, one of expanded_queries[1:]
ExpansionSearch ==
    /\ qpc = "expansion"
    /\ \/ LET exp_query == rq.expanded_queries[rq.next]
              matches == IndexQuery(index, generate_embedding(exp_query), ExpansionTopK)
              all_chunks == AddMatches(rq.all_chunks, matches, rq.hybrid_min_score,
                                       "semantic_expanded")
              r == [rq EXCEPT !.semantic_matches = @ \o matches,
                              !.matched = @ \o Qualifying(matches, rq.hybrid_min_score,
                                                          "semantic_expanded")]
          IN  /\ rq' = SemanticDone(r, all_chunks, rq.next + 1)
              /\ qpc' = AfterSemantic(r, all_chunks, rq.next + 1)
              /\ UNCHANGED <<faultsLeft, http>>
       \/ /\ faultsLeft > 0
          /\ faultsLeft' = faultsLeft - 1
          /\ \E call \in SemanticCalls :
                /\ rq' = [rq EXCEPT !.failed = @ \cup {"expansion"}, !.outcome = "raised"]
                /\ http' = InternalServerError(call)
          /\ qpc' = "idle"
    /\ UNCHANGED <<conversations, chat_history, now, nextId, index, offered, requestsLeft>>
    /\ UNCHANGED convVars
    /\ UNCHANGED calc

\* hybrid_search, stage 3, and its return: _keyword_search_mongodb gives [] when the
\* document store fails
KeywordSearch ==
    /\ qpc = "keyword"
    /\ \E failed \in Failures :
          LET keyword_chunks ==
                  IF failed THEN <<>>
                  ELSE keyword_search_mongodb(ChunksCollection(index),
                                              extract_keywords(rq.query), KeywordLimit)
              all_chunks == AddKeywordChunks(rq.all_chunks, keyword_chunks)
              r == [Noted(rq, failed, "keyword") EXCEPT !.matched = @ \o
                       [i \in 1..Len(keyword_chunks) |->
                           [chunk_id |-> keyword_chunks[i].chunk_id,
                            score |-> KeywordFallbackScore,
                            search_method |-> "keyword_fallback"]]]
          IN  /\ rq' = Searched(r, all_chunks)
              /\ qpc' = AfterSearch(r, all_chunks)
              /\ faultsLeft' = Spent(failed)
    /\ UNCHANGED <<conversations, chat_history, now, nextId, index, offered, requestsLeft, http>>
    /\ UNCHANGED convVars
    /\ UNCHANGED calc

\* answer_query, the second-chance stage, one of expanded[1:]: a failure of the
\* embedding or of the index query is passed over
SecondChanceSearch ==
    /\ qpc = "second_chance"
    /\ \E failed \in Failures :
          LET expanded == expand_query(preprocess_query(rq.query))
              matches == IF failed THEN <<>>
                         ELSE IndexQuery(index, generate_embedding(expanded[rq.next]),
                                         SecondChanceTopK)
              extra_chunks == AddSecondChance(rq.extra_chunks, matches)
              last == rq.next = Len(expanded)
              r == [Noted(rq, failed, "second_chance") EXCEPT
                       !.extra_chunks = extra_chunks,
                       !.matched_final = @ \o Qualifying(matches, 0, "semantic_expanded_final"),
                       !.next = @ + 1,
                       !.second_chance = TRUE]
          IN  /\ rq' = IF last /\ ~NoCandidates(extra_chunks)
                       THEN [r EXCEPT !.chunks = rerank_chunks(extra_chunks, rq.query)]
                       ELSE r
              /\ qpc' = IF ~last THEN "second_chance"
                        ELSE IF ~NoCandidates(extra_chunks) THEN "generate"
                        ELSE "fallback"
              /\ faultsLeft' = Spent(failed)
    /\ UNCHANGED <<conversations, chat_history, now, nextId, index, offered, requestsLeft, http>>
    /\ UNCHANGED convVars
    /\ UNCHANGED calc

\* answer_query returns the fallback guidance: rag.py 526-535
FallbackRespond ==
    /\ qpc = "fallback"
    /\ \E t \in ClockReadings :
          /\ now' = t
          /\ rq' = [rq EXCEPT !.fallback_invoked = TRUE,
                              !.outcome = "returned",
                              !.result =
                                 [query |-> rq.query,
                                  response |-> clean_response_format(
                                                   generate_fallback_response(rq.query)),
                                  sources |-> <<>>,
                                  confidence |-> "LOW",
                                  chunks_found |-> 0,
                                  timestamp |-> t]]
    /\ qpc' = "endpoint_result"
    /\ UNCHANGED <<conversations, chat_history, nextId, index, offered, requestsLeft,
                   faultsLeft, http>>
    /\ UNCHANGED convVars
    /\ UNCHANGED calc

\* what generate_response_with_groq may return: a text of the service, cleaned, or, if the
\* call may fail, the message made for its exception
GenerationOutcomes ==
    {[failed |-> FALSE, text |-> clean_response_format(raw_text)] : raw_text \in GroqTexts}
    \cup (IF faultsLeft > 0
          THEN {[failed |-> TRUE, text |-> generation_error_response(e)] :
                    e \in GenerationErrors}
          ELSE {})

\* response_obj of answer_query
ResponseObj(query, response_text, chunks, timestamp) ==
    [query |-> query,
     response |-> response_text,
     sources |-> Sources(chunks),
     confidence |-> Confidence(chunks),
     chunks_found |-> Len(chunks),
     avg_relevance |-> AvgRelevance(chunks),
     timestamp |-> timestamp]

\* answer_query: generate_response_with_groq, the confidence and response_obj
GenerateResponse ==
    /\ qpc = "generate"
    /\ \E g \in GenerationOutcomes, t \in ClockReadings :
          /\ now' = t
          /\ rq' = [Noted(rq, g.failed, "generation") EXCEPT
                       !.generation_called = TRUE,
                       !.result = ResponseObj(rq.query, g.text, rq.chunks, t),
                       !.outcome = IF rq.conversation_id # None THEN @ ELSE "returned"]
          /\ faultsLeft' = Spent(g.failed)
    /\ qpc' = IF rq.conversation_id # None THEN "save_user" ELSE "endpoint_result"
    /\ UNCHANGED <<conversations, chat_history, nextId, index, offered, requestsLeft, http>>
    /\ UNCHANGED convVars
    /\ UNCHANGED calc

\* the document save_to_chat_history inserts
Turn(conversation_id, role, content, timestamp) ==
    [conversation_id |-> conversation_id, role |-> role, content |-> content,
     timestamp |-> timestamp]

\* answer_query: self.save_to_chat_history(conversation_id, "user", query)
SaveUserTurn ==
    /\ qpc = "save_user"
    /\ \E failed \in Failures, t \in ClockReadings :
          /\ now' = t
          /\ chat_history' = IF failed THEN chat_history
                             ELSE Append(chat_history,
                                         Turn(rq.conversation_id, "user", rq.query, t))
          /\ rq' = Noted(rq, failed, "save_to_chat_history")
          /\ faultsLeft' = Spent(failed)
    /\ qpc' = "save_assistant"
    /\ UNCHANGED <<conversations, nextId, index, offered, requestsLeft, http>>
    /\ UNCHANGED convVars
    /\ UNCHANGED calc

\* answer_query: self.save_to_chat_history(conversation_id, "assistant", response_text)
SaveAssistantTurn ==
    /\ qpc = "save_assistant"
    /\ \E failed \in Failures, t \in ClockReadings :
          /\ now' = t
          /\ chat_history' = IF failed THEN chat_history
                             ELSE Append(chat_history,
                                         Turn(rq.conversation_id, "assistant",
                                              rq.result.response, t))
          /\ rq' = Noted(rq, failed, "save_to_chat_history")
          /\ faultsLeft' = Spent(failed)
    /\ qpc' = "save_conversation"
    /\ UNCHANGED <<conversations, nextId, index, offered, requestsLeft, http>>
    /\ UNCHANGED convVars
    /\ UNCHANGED calc

\* the document _save_conversation inserts: {'conversation_id': ..., **response_obj}
SavedConversation(conversation_id, response_obj) ==
    WithField(response_obj, "conversation_id", conversation_id)

\* answer_query: self._save_conversation(conversation_id, response_obj), and the return.
\* The insert fails on a conversation_id the collection holds (unique index) or with
\* the store; _save_conversation passes over both.
SaveConversation ==
    /\ qpc = "save_conversation"
    /\ \E failed \in Failures :
          /\ conversations' =
                IF failed \/ DuplicateKey(conversations, rq.conversation_id)
                THEN conversations
                ELSE Append(conversations,
                            SavedConversation(rq.conversation_id, rq.result))
          /\ rq' = [Noted(rq, failed, "_save_conversation") EXCEPT !.outcome = "returned"]
          /\ faultsLeft' = Spent(failed)
    /\ qpc' = "endpoint_result"
    /\ UNCHANGED <<chat_history, now, nextId, index, offered, requestsLeft, http>>
    /\ UNCHANGED convVars
    /\ UNCHANGED calc

\* result.get('avg_relevance', 0.0)
AvgRelevanceOr(result, default) ==
    IF "avg_relevance" \in DOMAIN result THEN result.avg_relevance ELSE default

\* round(avg_score * 100, 1), in tenths of a percent, of an avg_score in thousandths
ConfidencePercentage(avg_score) == (avg_score * 100) \div 100

\* query_endpoint has the result: main.py 341-348
EndpointResult ==
    /\ qpc = "endpoint_result"
    /\ \E t \in ClockReadings :
          /\ now' = t
          /\ rq' = [rq EXCEPT !.current_timestamp = t,
                              !.confidence_percentage =
                                  ConfidencePercentage(AvgRelevanceOr(rq.result, 0))]
    /\ qpc' = IF rq.user # Guest /\ rq.conversation_id # None THEN "find_one" ELSE "respond"
    /\ UNCHANGED <<conversations, chat_history, nextId, index, offered, requestsLeft,
                   faultsLeft, http>>
    /\ UNCHANGED convVars
    /\ UNCHANGED calc

\* query_endpoint: conv = conversations_collection.find_one(...)
EndpointFind ==
    /\ qpc = "find_one"
    /\ \E failed \in Failures :
          /\ rq' = [Noted(rq, failed, "find_one") EXCEPT
                       !.conv = DuplicateKey(conversations, rq.conversation_id)]
          /\ http' = IF failed THEN InternalServerError("find_one") ELSE http
          /\ qpc' = IF failed THEN "idle" ELSE "write"
          /\ faultsLeft' = Spent(failed)
    /\ UNCHANGED <<conversations, chat_history, now, nextId, index, offered, requestsLeft>>
    /\ UNCHANGED convVars
    /\ UNCHANGED calc

\* query_endpoint: insert_one of a new conversation, or update_one of the one found
EndpointWrite ==
    /\ qpc = "write"
    /\ \E failed \in Failures :
          /\ conversations' =
                IF failed THEN conversations
                ELSE IF ~rq.conv
                THEN Append(conversations,
                            NewConversation(rq.conversation_id, rq.user, rq.query,
                                            rq.current_timestamp))
                ELSE UpdateOneById(conversations, rq.conversation_id, rq.query,
                                   rq.current_timestamp)
          /\ rq' = Noted(rq, failed, IF rq.conv THEN "update_one" ELSE "insert_one")
          /\ http' = IF failed
                     THEN InternalServerError(IF rq.conv THEN "update_one" ELSE "insert_one")
                     ELSE http
          /\ qpc' = IF failed THEN "idle" ELSE "insert_many"
          /\ faultsLeft' = Spent(failed)
    /\ UNCHANGED <<chat_history, now, nextId, index, offered, requestsLeft>>
    /\ UNCHANGED convVars
    /\ UNCHANGED calc

\* query_endpoint: chat_history_collection.insert_many of the two turns
EndpointSaveMessages ==
    /\ qpc = "insert_many"
    /\ \E failed \in Failures :
          /\ chat_history' =
                IF failed THEN chat_history
                ELSE chat_history \o
                     ChatMessages(rq.conversation_id, rq.query, rq.result.response,
                                  rq.result.sources, rq.confidence_percentage,
                                  rq.current_timestamp)
          /\ rq' = Noted(rq, failed, "insert_many")
          /\ http' = IF failed THEN InternalServerError("insert_many") ELSE http
          /\ qpc' = IF failed THEN "idle" ELSE "respond"
          /\ faultsLeft' = Spent(failed)
    /\ UNCHANGED <<conversations, now, nextId, index, offered, requestsLeft>>
    /\ UNCHANGED convVars
    /\ UNCHANGED calc

\* the fields of result that QueryResponse(...) reads with result[...]
ResultFieldsRead == {"query", "response", "sources", "chunks_found", "avg_relevance"}

\* query_endpoint: response = QueryResponse(...) and its return; a field result lacks
\* raises KeyError, which the except branch turns into HTTP 500
EndpointRespond ==
    /\ qpc = "respond"
    /\ http' = IF ResultFieldsRead \subseteq DOMAIN rq.result
               THEN [status |-> 200,
                     query |-> rq.result.query,
                     response |-> rq.result.response,
                     sources |-> rq.result.sources,
                     confidence_score |-> rq.confidence_percentage,
                     chunks_found |-> rq.result.chunks_found,
                     avg_relevance |-> rq.result.avg_relevance,
                     conversation_id |-> rq.conversation_id,
                     timestamp |-> rq.current_timestamp]
               ELSE InternalServerError("KeyError")
    /\ qpc' = "idle"
    /\ UNCHANGED <<conversations, chat_history, now, nextId, index, offered, requestsLeft,
                   faultsLeft, rq>>
    /\ UNCHANGED convVars
    /\ UNCHANGED calc

vars == <<conversations, chat_history, now, nextId, ccpc, cc, calls, updates,
          index, offered, requestsLeft, faultsLeft, qpc, rq, http, calc>>

\* no function is called on its own
NoCalc == [op |-> "none"]

\* the conversation-utility callers are in no call
ConvIdle ==
    /\ ccpc = [p \in Procs |-> "idle"]
    /\ cc = [p \in Procs |-> NoCall]
    /\ calls = 0
    /\ updates = 0

\* the store holds one conversation of user u1 and its two turns: what an earlier
\* query of u1, answered by the fallback responder, left (main.py 356-394)
StoredConversations == <<NewConversation(StoredConversationId, "u1", Help, 1)>>

StoredChatHistory ==
    ChatMessages(StoredConversationId, Help,
                 clean_response_format(generate_fallback_response(Help)), <<>>, 0, 1)

\* the service is up with some knowledge base; one request is to come
Init ==
    /\ conversations = StoredConversations
    /\ chat_history = StoredChatHistory
    /\ now = 1
    /\ nextId = StoredConversationId + 1
    /\ ConvIdle
    /\ index \in IndexStates
    /\ offered = Requests
    /\ requestsLeft = 1
    /\ faultsLeft = MaxFaults
    /\ qpc = "idle"
    /\ rq = NoRequest
    /\ http = NoResponse
    /\ calc = NoCalc

\* POST /api/query, step by step
Next ==
    \/ QueryRequest
    \/ GetChatHistory
    \/ PrimarySearch
    \/ ExpansionSearch
    \/ KeywordSearch
    \/ SecondChanceSearch
    \/ FallbackRespond
    \/ GenerateResponse
    \/ SaveUserTurn
    \/ SaveAssistantTurn
    \/ SaveConversation
    \/ EndpointResult
    \/ EndpointFind
    \/ EndpointWrite
    \/ EndpointSaveMessages
    \/ EndpointRespond

Spec == Init /\ [][Next]_vars

\* max_conversations: the default of manage_conversation_limit and create_conversation
DefaultMaxConversations == 10

\* the queries user u1 sends in a row, each without a conversation_id
MaxCapQueries == DefaultMaxConversations + 1

\* the index that holds chunk 1 alone, scored 90 against every embedding
WarmIndex == [c \in {1} |-> [v \in Vectors |-> 90]]

\* user u1 sends queries, each starting a conversation, and no collaborator fails:
\* MaxCapQueries of them to a service whose knowledge base is empty, or one to a
\* service that holds a chunk for it
InitCap ==
    /\ conversations = <<>>
    /\ chat_history = <<>>
    /\ now = 0
    /\ nextId = 1
    /\ ConvIdle
    /\ \/ /\ index = <<>>
          /\ offered = {[query |-> SnakeQuery, conversation_id |-> None,
                         top_k |-> DefaultTopK, min_score |-> DefaultMinScore, user |-> "u1"]}
          /\ requestsLeft = MaxCapQueries
       \/ /\ index = WarmIndex
          /\ offered = {[query |-> BleedingQuery, conversation_id |-> None,
                         top_k |-> DefaultTopK, min_score |-> DefaultMinScore, user |-> "u1"]}
          /\ requestsLeft = 1
    /\ faultsLeft = 0
    /\ qpc = "idle"
    /\ rq = NoRequest
    /\ http = NoResponse
    /\ calc = NoCalc

SpecCap == InitCap /\ [][Next]_vars

\* the conversation utilities are called on an empty store
InitConv ==
    /\ conversations = <<>>
    /\ chat_history = <<>>
    /\ now = 0
    /\ nextId = 1
    /\ ConvIdle
    /\ QueryIdle
    /\ calc = NoCalc

\* the conversation utilities, one caller at a time
NextConv == ConvStep(1)

SpecConv == InitConv /\ [][NextConv]_vars

\* the query every earlier exchange of InitConc carried
EarlierQuery == CHOOSE q \in ConvQueries : TRUE

\* the store after user u1 made n exchanges, each in a conversation of its own, one
\* after the other: exchange i made conversation i at instant 2i-1 and its turns at 2i
RECURSIVE ConversationsAfter(_)
ConversationsAfter(n) ==
    IF n = 0 THEN <<>>
    ELSE Append(ConversationsAfter(n - 1), NewConversation(n, "u1", EarlierQuery, 2 * n - 1))

RECURSIVE ChatHistoryAfter(_)
ChatHistoryAfter(n) ==
    IF n = 0 THEN <<>>
    ELSE ChatHistoryAfter(n - 1) \o ChatMessages(n, EarlierQuery, EarlierQuery, <<>>, 0, 2 * n)

\* callers running at once start where user u1 is one conversation short of the limit,
\* with one create_conversation call left for each of them
InitConc ==
    /\ conversations = ConversationsAfter(MaxConvArg - 1)
    /\ chat_history = ChatHistoryAfter(MaxConvArg - 1)
    /\ now = 2 * (MaxConvArg - 1)
    /\ nextId = MaxConvArg
    /\ ccpc = [p \in Procs |-> "idle"]
    /\ cc = [p \in Procs |-> NoCall]
    /\ calls = MaxCalls - Cardinality(Procs)
    /\ updates = 0
    /\ QueryIdle
    /\ calc = NoCalc

\* the conversation utilities, callers running at once
NextConc == \E p \in Procs : ConvStep(p)

SpecConc == InitConc /\ [][NextConc]_vars

\* the min_score values a client sets in QueryRequest: below and above the default
ClientMinScores == {DefaultMinScore - 10, DefaultMinScore, DefaultMinScore + 35}

\* the requests that set min_score
MinScoreRequests ==
    [query : Queries, conversation_id : {None, StoredConversationId}, top_k : {DefaultTopK},
     min_score : ClientMinScores, user : {Guest, "u1"}]

\* the service is up, no collaborator fails, one request that sets min_score is to come
InitMinScore ==
    /\ conversations = StoredConversations
    /\ chat_history = StoredChatHistory
    /\ now = 1
    /\ nextId = StoredConversationId + 1
    /\ ConvIdle
    /\ index \in IndexStates
    /\ offered = MinScoreRequests
    /\ requestsLeft = 1
    /\ faultsLeft = 0
    /\ qpc = "idle"
    /\ rq = NoRequest
    /\ http = NoResponse
    /\ calc = NoCalc

SpecMinScore == InitMinScore /\ [][Next]_vars

\* every string of at most n characters of chars
Strings(chars, n) == UNION {[1..k -> chars] : k \in 0..n}

\* the characters of the queries preprocess_query is called with
QueryChars == {"H", "?", "!", " "}

\* the longest query preprocess_query is called with
MaxQueryLen == 3

\* the characters of the texts clean_response_format is called with
TextChars == {"#", "*", "BACKTICK", "-", " ", "\n", "a"}

\* the longest text clean_response_format is called with
MaxTextLen == 3

\* no request, no conversation utility: only functions called on their own
OnlyCalc ==
    /\ conversations = <<>>
    /\ chat_history = <<>>
    /\ now = 0
    /\ nextId = 1
    /\ ConvIdle
    /\ QueryIdle

\* a text function is about to be called on a text
InitText ==
    /\ OnlyCalc
    /\ \/ \E query \in Strings(QueryChars, MaxQueryLen) :
             calc = [op |-> "preprocess_query", arg |-> query, returned |-> <<>>]
       \/ \E text \in Strings(TextChars, MaxTextLen) :
             calc = [op |-> "clean_response_format", arg |-> text, returned |-> <<>>]

\* the argument of the next call: the text at first, then what the last call returned
NextArg(c) == IF c.returned = <<>> THEN c.arg ELSE c.returned[Len(c.returned)]

\* preprocess_query(query), then preprocess_query of what it returned
PreprocessQueryCall ==
    /\ calc.op = "preprocess_query"
    /\ Len(calc.returned) < 2
    /\ calc' = [calc EXCEPT !.returned = Append(@, preprocess_query(NextArg(calc)))]
    /\ UNCHANGED <<conversations, chat_history, now, nextId>>
    /\ UNCHANGED convVars
    /\ UNCHANGED queryVars

\* clean_response_format(text), then clean_response_format of what it returned
CleanResponseFormatCall ==
    /\ calc.op = "clean_response_format"
    /\ Len(calc.returned) < 2
    /\ calc' = [calc EXCEPT !.returned = Append(@, clean_response_format(NextArg(calc)))]
    /\ UNCHANGED <<conversations, chat_history, now, nextId>>
    /\ UNCHANGED convVars
    /\ UNCHANGED queryVars

NextText ==
    \/ PreprocessQueryCall
    \/ CleanResponseFormatCall

SpecText == InitText /\ [][NextText]_vars

\* the words of the queries expand_query is called with
QueryWords == {
    <<"b","l","e","e","d","i","n","g">>,
    <<"c","h","o","k","i","n","g">>,
    <<"s","n","a","k","e">>,
    <<"H","e","l","p">>,
    <<"?","!">>
}

\* the most words of a query expand_query is called with
MaxQueryWords == 2

\* the queries expand_query is called with: words with one space between them
ExpandQueries ==
    {Join(words, <<" ">>) : words \in Strings(QueryWords, MaxQueryWords)}

\* the largest max_expansions QueryProcessor.expand_query is called with
MaxExpansionsArg == 6

\* expand_query is about to be called: the one of the assistant, as hybrid_search calls
\* it, or the one of QueryProcessor with a max_expansions
InitExpand ==
    /\ OnlyCalc
    /\ \E query \in ExpandQueries :
          \/ calc = [op |-> "expand_query", query |-> query, called |-> FALSE]
          \/ \E max_expansions \in 0..MaxExpansionsArg :
                calc = [op |-> "QueryProcessor.expand_query", query |-> query,
                        max_expansions |-> max_expansions, called |-> FALSE]

\* hybrid_search up to its expansion: clean_query = preprocess_query(query) and
\* expanded_queries = expand_query(clean_query)
ExpandQueryCall ==
    /\ calc.op = "expand_query"
    /\ ~calc.called
    /\ LET clean_query == preprocess_query(calc.query)
       IN  calc' = [op |-> calc.op, query |-> calc.query, called |-> TRUE,
                    clean_query |-> clean_query,
                    expanded_queries |-> expand_query(clean_query)]
    /\ UNCHANGED <<conversations, chat_history, now, nextId>>
    /\ UNCHANGED convVars
    /\ UNCHANGED queryVars

\* QueryProcessor.expand_query(query, max_expansions)
QueryProcessorExpandQueryCall ==
    /\ calc.op = "QueryProcessor.expand_query"
    /\ ~calc.called
    /\ calc' = [op |-> calc.op, query |-> calc.query, max_expansions |-> calc.max_expansions,
                called |-> TRUE,
                returned |-> QueryProcessor_expand_query(calc.query, calc.max_expansions)]
    /\ UNCHANGED <<conversations, chat_history, now, nextId>>
    /\ UNCHANGED convVars
    /\ UNCHANGED queryVars

NextExpand ==
    \/ ExpandQueryCall
    \/ QueryProcessorExpandQueryCall

SpecExpand == InitExpand /\ [][NextExpand]_vars

\* the query rerank_chunks is called with
RankQuery == <<"s","e","v","e","r","e"," ","b","l","e","e","d","i","n","g">>

\* the texts of the candidates rerank_chunks is called with: no, one and two keywords of
\* RankQuery
RankTexts == {
    <<"A","p","p","l","y"," ","p","r","e","s","s","u","r","e">>,
    <<"S","e","v","e","r","e"," ","w","o","u","n","d">>,
    <<"s","e","v","e","r","e"," ","B","L","E","E","D","I","N","G">>
}

\* the scores of the candidates rerank_chunks is called with
RankScores == {DefaultMinScore, DefaultMinScore + OverlapWeight}

\* the most candidates rerank_chunks is called with
MaxRankChunks == 3

\* the candidate lists rerank_chunks is called with: the candidate at position i has
\* chunk_id i
RankChunkLists ==
    UNION {[1..n -> [score : RankScores, text : RankTexts]] : n \in 0..MaxRankChunks}

\* rerank_chunks is about to be called on a list of candidates
InitRank ==
    /\ OnlyCalc
    /\ \E list \in RankChunkLists :
          calc = [op |-> "rerank_chunks",
                  chunks |-> [i \in 1..Len(list) |->
                                 [chunk_id |-> i, score |-> list[i].score,
                                  text |-> list[i].text]],
                  query |-> RankQuery, called |-> FALSE]

\* rerank_chunks(chunks, query)
RerankChunksCall ==
    /\ calc.op = "rerank_chunks"
    /\ ~calc.called
    /\ calc' = [op |-> calc.op, chunks |-> calc.chunks, query |-> calc.query,
                called |-> TRUE, returned |-> rerank_chunks(calc.chunks, calc.query)]
    /\ UNCHANGED <<conversations, chat_history, now, nextId>>
    /\ UNCHANGED convVars
    /\ UNCHANGED queryVars

NextRank ==
    \/ RerankChunksCall

SpecRank == InitRank /\ [][NextRank]_vars

\* a text with no keyword of RankQuery and one with one keyword
NoKeywordText == <<"R","e","s","t">>

OneKeywordText == <<"S","e","v","e","r","e">>

\* the candidates of the answers whose confidence is computed: score and text, the scores
\* at the two thresholds and a hundredth below the upper one
ConfCandidates == {
    [score |-> MediumThreshold, text |-> NoKeywordText],
    [score |-> HighThreshold - 1, text |-> OneKeywordText],
    [score |-> HighThreshold, text |-> NoKeywordText],
    [score |-> HighThreshold, text |-> OneKeywordText]
}

\* the most candidates of an answer whose confidence is computed
MaxConfChunks == 2

\* the candidate lists hybrid_search returned for the two queries: not empty
ConfChunkLists ==
    UNION {[1..n -> ConfCandidates] : n \in 1..MaxConfChunks}

\* answer_query is at its rerank_chunks call, for one query and then for another
InitConfidence ==
    /\ OnlyCalc
    /\ \E first, second \in ConfChunkLists :
          calc = [op |-> "confidence", found |-> <<first, second>>, query |-> RankQuery,
                  answers |-> <<>>]

\* answer_query from rerank_chunks to the confidence, for the next of the two queries
AnswerConfidenceCall ==
    /\ calc.op = "confidence"
    /\ Len(calc.answers) < Len(calc.found)
    /\ LET list == calc.found[Len(calc.answers) + 1]
           chunks == rerank_chunks([i \in 1..Len(list) |->
                                       [chunk_id |-> i, score |-> list[i].score,
                                        text |-> list[i].text]], calc.query)
       IN  calc' = [calc EXCEPT !.answers =
                       Append(@, [chunks |-> chunks, confidence |-> Confidence(chunks)])]
    /\ UNCHANGED <<conversations, chat_history, now, nextId>>
    /\ UNCHANGED convVars
    /\ UNCHANGED queryVars

NextConfidence ==
    \/ AnswerConfidenceCall

SpecConfidence == InitConfidence /\ [][NextConfidence]_vars

\* the most turns the chat history holds when it is loaded
MaxTurns == 4

\* the most turns a caller asks for
MaxHistoryLimit == 3

\* the conversations whose turns the chat history holds, and their owners
HistoryOwner == [conversation_id \in {StoredConversationId, StoredConversationId + 1} |->
                    IF conversation_id = StoredConversationId THEN "u1" ELSE "u2"]

\* the content of the turn saved at time t
TurnContent(t) == [i \in 1..t |-> "x"]

\* the chat history after the turns of owners were saved, the turn of position t at time t:
\* a user turn and then an assistant turn, by turns
TurnsOf(owners) ==
    [t \in 1..Len(owners) |->
        Turn(owners[t], IF t % 2 = 1 THEN "user" ELSE "assistant", TurnContent(t), t)]

\* turns were saved; a history is about to be loaded with a limit, by answer_query's
\* get_chat_history or by GET /api/history/{conversation_id}
InitHistory ==
    /\ conversations = [c \in 1..Cardinality(DOMAIN HistoryOwner) |->
                           NewConversation(StoredConversationId + c - 1,
                                           HistoryOwner[StoredConversationId + c - 1], Help, 0)]
    /\ \E owners \in Strings(DOMAIN HistoryOwner, MaxTurns) :
          /\ chat_history = TurnsOf(owners)
          /\ now = Len(owners)
    /\ nextId = StoredConversationId + Cardinality(DOMAIN HistoryOwner)
    /\ ConvIdle
    /\ QueryIdle
    /\ \E conversation_id \in DOMAIN HistoryOwner, limit \in 1..MaxHistoryLimit :
          \/ calc = [op |-> "get_chat_history", conversation_id |-> conversation_id,
                     limit |-> limit, called |-> FALSE]
          \/ \E user_id \in Users :
                calc = [op |-> "get_conversation_history",
                        conversation_id |-> conversation_id, limit |-> limit,
                        user_id |-> user_id, called |-> FALSE]

\* FirstAidRAGAssistant.get_chat_history(conversation_id, limit): limit is not read
GetChatHistoryCall ==
    /\ calc.op = "get_chat_history"
    /\ ~calc.called
    /\ calc' = [op |-> calc.op, conversation_id |-> calc.conversation_id,
                limit |-> calc.limit, called |-> TRUE,
                returned |-> HistoryOf(chat_history, calc.conversation_id)]
    /\ UNCHANGED <<conversations, chat_history, now, nextId>>
    /\ UNCHANGED convVars
    /\ UNCHANGED queryVars

\* find({"conversation_id": ...}).sort("timestamp", 1).limit(limit) for a positive limit:
\* the turns are stored in the order of their timestamps
FindSortedLimit(coll, conversation_id, limit) ==
    Take(SelectSeq(coll, LAMBDA d : d.conversation_id = conversation_id), limit)

\* GET /api/history/{conversation_id}: 404 unless the conversation is current_user's
GetConversationHistory ==
    /\ calc.op = "get_conversation_history"
    /\ ~calc.called
    /\ LET conv == \E i \in 1..Len(conversations) :
                       /\ conversations[i].conversation_id = calc.conversation_id
                       /\ conversations[i].user_id = calc.user_id
           messages == FindSortedLimit(chat_history, calc.conversation_id, calc.limit)
       IN  calc' = [op |-> calc.op, conversation_id |-> calc.conversation_id,
                    limit |-> calc.limit, user_id |-> calc.user_id, called |-> TRUE,
                    returned |->
                        IF ~conv THEN [status |-> 404]
                        ELSE [status |-> 200, conversation_id |-> calc.conversation_id,
                              message_count |-> Len(messages), messages |-> messages]]
    /\ UNCHANGED <<conversations, chat_history, now, nextId>>
    /\ UNCHANGED convVars
    /\ UNCHANGED queryVars

NextHistory ==
    \/ GetChatHistoryCall
    \/ GetConversationHistory

SpecHistory == InitHistory /\ [][NextHistory]_vars

\* the queries of the requests that may carry no text: the empty one, a blank one, and
\* two with text
EmptyOrNotQueries == {<<>>, <<" ">>, SnakeQuery, BleedingQuery}

\* the requests that may carry no text
EmptyOrNotRequests ==
    [query : EmptyOrNotQueries, conversation_id : {None, StoredConversationId},
     top_k : {DefaultTopK}, min_score : MinScores, user : {Guest, "u1"}]

\* the service is up, no collaborator fails, one request that may carry no text is to come
InitEmpty ==
    /\ conversations = StoredConversations
    /\ chat_history = StoredChatHistory
    /\ now = 1
    /\ nextId = StoredConversationId + 1
    /\ ConvIdle
    /\ index \in IndexStates
    /\ offered = EmptyOrNotRequests
    /\ requestsLeft = 1
    /\ faultsLeft = 0
    /\ qpc = "idle"
    /\ rq = NoRequest
    /\ http = NoResponse
    /\ calc = NoCalc

SpecEmpty == InitEmpty /\ [][Next]_vars

\* the words of the queries the fallback responder is called with: keys of the table, early
\* and late ones, and a word that is none
FallbackWords == {
    <<"A","n","k","l","e">>,
    <<"s","n","a","k","e">>,
    <<"h","o","t">>,
    <<"H","e","l","p">>,
    <<"c","u","t">>,
    <<"f","e","v","e","r">>,
    <<"h","e","a","r","t">>
}

\* the queries the fallback responder is called with: at most MaxQueryWords words
FallbackQueries ==
    {Join(words, <<" ">>) : words \in Strings(FallbackWords, MaxQueryWords)}

\* the fallback responder is about to be called on a query
InitFallback ==
    /\ OnlyCalc
    /\ \E query \in FallbackQueries :
          calc = [op |-> "_generate_fallback_response", query |-> query, called |-> FALSE]

\* _generate_fallback_response(query)
GenerateFallbackResponseCall ==
    /\ calc.op = "_generate_fallback_response"
    /\ ~calc.called
    /\ calc' = [op |-> calc.op, query |-> calc.query, called |-> TRUE,
                returned |-> generate_fallback_response(calc.query)]
    /\ UNCHANGED <<conversations, chat_history, now, nextId>>
    /\ UNCHANGED convVars
    /\ UNCHANGED queryVars

NextFallback ==
    \/ GenerateFallbackResponseCall

SpecFallback == InitFallback /\ [][NextFallback]_vars

\* the loop of hybrid_search over the expansion variants, in the order of the list
RECURSIVE AddVariants(_, _, _, _)
AddVariants(all_chunks, idx, variants, min_score) ==
    IF variants = <<>> THEN all_chunks
    ELSE AddVariants(
             AddMatches(all_chunks,
                        IndexQuery(idx, generate_embedding(Head(variants)), ExpansionTopK),
                        min_score, "semantic_expanded"),
             idx, Tail(variants), min_score)

\* hybrid_search with its loop run over variants in the place of expanded_queries[1:], no
\* collaborator failing
HybridSearchOver(idx, query, top_k, min_score, variants) ==
    LET clean_query == preprocess_query(query)
        original == AddMatches(<<>>, IndexQuery(idx, generate_embedding(clean_query), top_k),
                               min_score, "semantic_original")
        semantic == AddVariants(original, idx, variants, min_score)
        all_chunks == IF Len(semantic) < KeywordStageBelow
                      THEN AddKeywordChunks(semantic,
                               keyword_search_mongodb(ChunksCollection(idx),
                                                      extract_keywords(query), KeywordLimit))
                      ELSE semantic
    IN  HybridResult(all_chunks, top_k)

\* the scores of the index when the order of the variants is in question: one below
\* min_score and two above it
OrderMatchScores == {DefaultMinScore - 5, DefaultMinScore + 10, DefaultMinScore + 30}

\* the states of the index then
OrderIndexStates == UNION {[D -> [Vectors -> OrderMatchScores]] : D \in SUBSET ChunkIds}

\* expanded_queries[1:] for a query
Variants(query) == Tail(expand_query(preprocess_query(query)))

\* the orders n variants can be processed in
Orders(n) == {order \in [1..n -> 1..n] : \A i, j \in 1..n : order[i] = order[j] => i = j}

\* the queries then: one without a variant and one with three
OrderQueries == {Help, SnakeQuery}

\* hybrid_search is about to be run on a query, with the variants in the order of
\* expand_query and then in another order
InitOrder ==
    /\ conversations = <<>>
    /\ chat_history = <<>>
    /\ now = 0
    /\ nextId = 1
    /\ ConvIdle
    /\ index \in OrderIndexStates
    /\ offered = {}
    /\ requestsLeft = 0
    /\ faultsLeft = 0
    /\ qpc = "idle"
    /\ rq = NoRequest
    /\ http = NoResponse
    /\ \E query \in OrderQueries, top_k \in TopKs :
          \E order \in Orders(Len(Variants(query))) :
              calc = [op |-> "hybrid_search", query |-> query, top_k |-> top_k,
                      orders |-> <<[i \in 1..Len(Variants(query)) |-> i], order>>,
                      returned |-> <<>>]

\* hybrid_search(query, top_k) with the variants in the next of the two orders
HybridSearchCall ==
    /\ calc.op = "hybrid_search"
    /\ Len(calc.returned) < Len(calc.orders)
    /\ LET order == calc.orders[Len(calc.returned) + 1]
           variants == [i \in 1..Len(order) |-> Variants(calc.query)[order[i]]]
       IN  calc' = [calc EXCEPT !.returned =
                       Append(@, HybridSearchOver(index, calc.query, calc.top_k,
                                                  DefaultMinScore, variants))]
    /\ UNCHANGED <<conversations, chat_history, now, nextId>>
    /\ UNCHANGED convVars
    /\ UNCHANGED queryVars

NextOrder ==
    \/ HybridSearchCall

SpecOrder == InitOrder /\ [][NextOrder]_vars

\* a query with synonyms in the expansion table and no word of the knowledge base
ChokingQuery == <<"H","e"," ","i","s"," ","c","h","o","k","i","n","g">>

\* the requests whose top_k is set by the client, the smallest one included
TopKRequests ==
    [query : {Help, SnakeQuery, ChokingQuery}, conversation_id : {None, StoredConversationId}, top_k : TopKs,
     min_score : {DefaultMinScore}, user : {Guest, "u1"}]

\* the service is up, no collaborator fails, one request that sets top_k is to come
InitTopK ==
    /\ conversations = StoredConversations
    /\ chat_history = StoredChatHistory
    /\ now = 1
    /\ nextId = StoredConversationId + 1
    /\ ConvIdle
    /\ index \in IndexStates
    /\ offered = TopKRequests
    /\ requestsLeft = 1
    /\ faultsLeft = 0
    /\ qpc = "idle"
    /\ rq = NoRequest
    /\ http = NoResponse
    /\ calc = NoCalc

SpecTopK == InitTopK /\ [][Next]_vars

\* the callers of /api/query: a guest, the owner of the stored conversation and
\* another authenticated user
Callers == {Guest, "u1", "u2"}

\* the requests of the callers, with and without the id of the stored conversation
OwnerRequests ==
    [query : {Help, SnakeQuery}, conversation_id : {None, StoredConversationId},
     top_k : {DefaultTopK}, min_score : {DefaultMinScore}, user : Callers]

\* the service is up, no collaborator fails, one request of one of the callers is to come
InitOwner ==
    /\ conversations = StoredConversations
    /\ chat_history = StoredChatHistory
    /\ now = 1
    /\ nextId = StoredConversationId + 1
    /\ ConvIdle
    /\ index \in IndexStates
    /\ offered = OwnerRequests
    /\ requestsLeft = 1
    /\ faultsLeft = 0
    /\ qpc = "idle"
    /\ rq = NoRequest
    /\ http = NoResponse
    /\ calc = NoCalc

SpecOwner == InitOwner /\ [][Next]_vars

\* the min_score values hybrid_search is called with: below every score of the index,
\* its default, between the scores of the index, and above them
HybridMinScores ==
    {DefaultMinScore - 10, DefaultMinScore, DefaultMinScore + 10, DefaultMinScore + 35}

\* hybrid_search is called on its own, with a min_score, and no collaborator fails
InitHybrid ==
    /\ conversations = <<>>
    /\ chat_history = <<>>
    /\ now = 0
    /\ nextId = 1
    /\ ConvIdle
    /\ index \in IndexStates
    /\ offered = {}
    /\ requestsLeft = 0
    /\ faultsLeft = 0
    /\ qpc = "primary"
    /\ \E query \in Queries, top_k \in TopKs, min_score \in HybridMinScores :
          rq = [NoRequest EXCEPT !.query = query, !.top_k = top_k,
                                 !.hybrid_min_score = min_score, !.outcome = "running"]
    /\ http = NoResponse
    /\ calc = NoCalc

\* the stages of hybrid_search
NextHybrid ==
    \/ PrimarySearch
    \/ ExpansionSearch
    \/ KeywordSearch

SpecHybrid == InitHybrid /\ [][NextHybrid]_vars

(***************************************************************************)
(* Claims about the conversation utilities.                                *)
(***************************************************************************)

\* C6: when create_conversation is called for a user who holds max_conversations
\* conversations, one conversation of that user with the smallest created_at is deleted
\* with all its chat-history turns, nothing else is deleted, and the user holds exactly
\* max_conversations conversations after the insert.
C6_EvictsOldestOnly ==
    \A p \in Procs :
        ( /\ ccpc[p] = "created"
          /\ CountUser(cc[p].entry_conversations, cc[p].user_id) = cc[p].max_conversations )
        => LET pre == cc[p].entry_conversations
               u   == cc[p].user_id
           IN  \E i \in 1..Len(pre) :
                  /\ pre[i].user_id = u
                  /\ \A j \in 1..Len(pre) :
                        pre[j].user_id = u => pre[i].created_at <= pre[j].created_at
                  /\ conversations =
                        Append(RemoveAt(pre, i),
                               NewConversation(cc[p].conversation_id, u, cc[p].query,
                                               cc[p].current_timestamp))
                  /\ chat_history =
                        SelectSeq(cc[p].entry_chat_history,
                                  LAMBDA d : d.conversation_id # pre[i].conversation_id)
                  /\ CountUser(conversations, u) = cc[p].max_conversations

\* C6 witness: a create_conversation call at the limit has returned; turns of the evicted
\* conversation were deleted, and another user's conversation and turns are in the store.
C6_Witness ==
    \E p \in Procs :
        /\ ccpc[p] = "created"
        /\ CountUser(cc[p].entry_conversations, cc[p].user_id) = cc[p].max_conversations
        /\ Len(chat_history) < Len(cc[p].entry_chat_history)
        /\ \E i \in 1..Len(conversations) :
              /\ conversations[i].user_id # cc[p].user_id
              /\ \E k \in 1..Len(chat_history) :
                    chat_history[k].conversation_id = conversations[i].conversation_id

\* C7: once the create_conversation calls that ran at once have returned, no user holds
\* more than max_conversations conversations.
C7_ConcurrentCreatesWithinLimit ==
    (\A p \in Procs : ccpc[p] \in {"idle", "created", "updated"})
    => \A u \in Users : CountUser(conversations, u) <= MaxConvArg

(***************************************************************************)
(* Properties of the query endpoint.                                       *)
(***************************************************************************)

\* the stages of retrieval whose embedding or index call failed are named in rq.failed
RetrievalStages == {"primary", "expansion", "keyword", "second_chance"}

\* C1: when the embedding call or the index call of a retrieval stage fails, the stage
\* counts as empty, the later stages run, and answer_query returns a result: the
\* exception never reaches the caller of answer_query.
C1_RetrievalFailureRecovered ==
    (rq.failed \cap RetrievalStages # {}) => rq.outcome # "raised"

\* the fields of an AnswerResult
AnswerFields ==
    {"query", "response", "sources", "confidence", "chunks_found", "avg_relevance",
     "timestamp"}

\* C2: when no stage of retrieval yields a candidate and no collaborator fails, the
\* fallback guidance is returned as a result with every field of an AnswerResult, and
\* the endpoint answers it with success, never with an error.
C2_NoCandidatesAnsweredInFull ==
    (rq.fallback_invoked /\ rq.failed = {}) =>
        /\ AnswerFields \subseteq DOMAIN rq.result
        /\ http.status \in {NoResponse.status, 200}

\* C3: when the call of the generation service fails, the returned text is the one
\* safety message, the same for every failure, and the confidence is LOW whatever the
\* scores of the candidates.
C3_GenerationFailureSafetyMessage ==
    ("generation" \in rq.failed) =>
        /\ \A e \in GenerationErrors : rq.result.response = generation_error_response(e)
        /\ rq.result.confidence = "LOW"

\* the reads and writes of conversations and chat history made for a query
StoreCalls ==
    {"get_chat_history", "save_to_chat_history", "_save_conversation",
     "find_one", "insert_one", "update_one", "insert_many"}

\* C4: when a read or write of the conversations or of the chat history fails while a
\* query with candidates is processed, and nothing else fails, the endpoint still
\* answers the query with success.
C4_StoreFailureStillAnswered ==
    (/\ rq.failed # {}
     /\ rq.failed \subseteq StoreCalls
     /\ ~rq.fallback_invoked
     /\ qpc = "idle") => http.status \in {NoResponse.status, 200}

\* C5: whatever queries an authenticated user sent to /api/query, the user owns at
\* most 10 conversations.
C5_AtMostTenConversations ==
    \A u \in Users : CountUser(conversations, u) <= DefaultMaxConversations

Snake == <<"s","n","a","k","e">>

\* the words of an instruction to call the emergency services
EmergencyWords == { <<"9","1","1">>,
                    <<"9","9","9">>,
                    <<"e","m","e","r","g","e","n","c","y">> }

\* the text tells the reader to call the emergency services
HasEmergencyCall(text) == \E w \in EmergencyWords : Contains(Lower(text), w)

\* C8: when the query mentions "snake" and retrieval yields no candidate, the response
\* of the fallback responder tells the user to call the emergency services.
C8_SnakeFallbackCallsEmergency ==
    (rq.fallback_invoked /\ Contains(Lower(rq.query), Snake)) =>
        HasEmergencyCall(rq.result.response)

\* C9: answer_query invokes the fallback responder exactly when hybrid_search returned
\* no candidate and the second-chance stage produced none, and then the generation
\* service is not called.
C9_FallbackIffNoCandidates ==
    /\ rq.fallback_invoked =>
          /\ rq.searched
          /\ rq.hybrid = <<>>
          /\ rq.extra_chunks = <<>>
          /\ ~rq.generation_called
    /\ (rq.outcome = "returned" /\ rq.hybrid = <<>> /\ rq.extra_chunks = <<>>) =>
          rq.fallback_invoked

\* the fallback responder answered after the second-chance stage ran and found nothing
C9_Witness ==
    /\ rq.fallback_invoked
    /\ rq.second_chance
    /\ rq.outcome = "returned"

\* no two candidates share a chunk_id
NoDuplicates(chunks) ==
    \A i, j \in 1..Len(chunks) : chunks[i].chunk_id = chunks[j].chunk_id => i = j

\* every candidate is the first of the matches of its chunk
KeepsFirst(chunks, matched) ==
    \A i \in 1..Len(chunks) :
        /\ \E k \in 1..Len(matched) : matched[k].chunk_id = chunks[i].chunk_id
        /\ Brief(chunks)[i] =
               matched[Min({k \in 1..Len(matched) : matched[k].chunk_id = chunks[i].chunk_id})]

SemanticTags == {"semantic_original", "semantic_expanded"}

\* the candidates are filtered by min_score, the keyword ones carry the fixed score
ScoreFiltered(chunks, min_score) ==
    \A i \in 1..Len(chunks) :
        /\ chunks[i].search_method \in SemanticTags => chunks[i].score >= min_score
        /\ chunks[i].search_method = "keyword_fallback" =>
               chunks[i].score = KeywordFallbackScore

\* C11: every candidate hybrid_search(min_score = m) collects and returns that is tagged
\* semantic_original or semantic_expanded has score >= m, and every candidate tagged
\* keyword_fallback carries the fixed score 0.65, whatever m is.
C11_ScoreFilter ==
    /\ ScoreFiltered(rq.all_chunks, rq.hybrid_min_score)
    /\ ScoreFiltered(rq.hybrid, rq.hybrid_min_score)

\* hybrid_search, called with another min_score than the default, returned a semantic
\* candidate and a keyword candidate
C11_Witness ==
    /\ rq.searched
    /\ rq.hybrid_min_score # DefaultMinScore
    /\ \E i, j \in 1..Len(rq.hybrid) :
          /\ rq.hybrid[i].search_method \in SemanticTags
          /\ rq.hybrid[j].search_method = "keyword_fallback"

\* a match of the index is kept as a semantic candidate exactly when its score reaches
\* min_score
ThresholdUsed(r, min_score) ==
    /\ \A i \in 1..Len(r.matched) :
           r.matched[i].search_method \in SemanticTags => r.matched[i].score >= min_score
    /\ \A i \in 1..Len(r.semantic_matches) :
           r.semantic_matches[i].score >= min_score =>
               \E j \in 1..Len(r.matched) :
                   /\ r.matched[j].chunk_id = r.semantic_matches[i].chunk_id
                   /\ r.matched[j].search_method \in SemanticTags

\* C12: the min_score a client sets in the request of /api/query is the threshold the
\* retrieval of that request uses: once hybrid_search has returned, the semantic candidates
\* are the matches whose score reaches the request's min_score, for values below and
\* above the default.
C12_CallerMinScoreUsed == rq.searched => ThresholdUsed(rq, rq.min_score)

\* a function was called on a text and then on what it returned
CalledTwice(op) == calc.op = op /\ Len(calc.returned) = 2

\* C13: preprocess_query is idempotent: preprocess_query of what preprocess_query returned
\* is that same text, for every query, those included where runs of '?' and '!' at the
\* end are separated by spaces.
C13_PreprocessIdempotent ==
    CalledTwice("preprocess_query") => calc.returned[2] = calc.returned[1]

\* C14: clean_response_format is idempotent: clean_response_format of what
\* clean_response_format returned is that same text, for every text, those included that
\* repeat or nest heading markers, asterisks, backticks and bullet prefixes.
C14_SanitizerIdempotent ==
    CalledTwice("clean_response_format") => calc.returned[2] = calc.returned[1]

\* C15: for every query q and every limit k, expand_query(q, k) returns at most k variants
\* and its element 0 is the normalized query preprocess_query(q).
C15_ExpansionBound ==
    (calc.op = "QueryProcessor.expand_query" /\ calc.called) =>
        /\ Len(calc.returned) <= calc.max_expansions
        /\ Len(calc.returned) >= 1
        /\ calc.returned[1] = preprocess_query(calc.query)

Bleeding == <<"b","l","e","e","d","i","n","g">>

Hemorrhage == <<"h","e","m","o","r","r","h","a","g","e">>

\* C16 as stated: for every query whose normalized form contains "bleeding", the variants
\* retrieval uses include the normalized query with "hemorrhage" in the place of
\* "bleeding", other terms of the synonym table in the query or not.
C16_BleedingHemorrhage ==
    (calc.op = "expand_query" /\ calc.called /\ Contains(calc.clean_query, Bleeding)) =>
        InSeq(Replace(calc.clean_query, Bleeding, Hemorrhage), calc.expanded_queries)

Choking == <<"c","h","o","k","i","n","g">>

\* C16, amended: for every query whose normalized form contains "bleeding" and not
\* "choking", the one term before it in the synonym table, the variants retrieval uses
\* include the normalized query with "hemorrhage" in the place of "bleeding", other terms
\* of the table in the query or not.
C16_BleedingHemorrhageUnlessChoking ==
    (/\ calc.op = "expand_query" /\ calc.called
     /\ Contains(calc.clean_query, Bleeding)
     /\ ~Contains(calc.clean_query, Choking)) =>
        InSeq(Replace(calc.clean_query, Bleeding, Hemorrhage), calc.expanded_queries)

\* a query with "bleeding" and "snake", another term of the table, was expanded and the
\* "hemorrhage" variant is among the variants
C16_Witness ==
    /\ calc.op = "expand_query" /\ calc.called
    /\ Contains(calc.clean_query, Bleeding)
    /\ Contains(calc.clean_query, <<"s","n","a","k","e">>)
    /\ InSeq(Replace(calc.clean_query, Bleeding, Hemorrhage), calc.expanded_queries)

\* the position of the candidate chunk_id in chunks
PositionIn(chunks, chunk_id) == CHOOSE i \in 1..Len(chunks) : chunks[i].chunk_id = chunk_id

\* returned holds the candidates of chunks, each once, with its score and text
SameCandidates(chunks, returned) ==
    /\ Len(returned) = Len(chunks)
    /\ \A i \in 1..Len(chunks) :
          \E j \in 1..Len(returned) :
              /\ returned[j].chunk_id = chunks[i].chunk_id
              /\ returned[j].score = chunks[i].score
              /\ returned[j].text = chunks[i].text

\* C17: rerank_chunks returns the candidates it was given, in descending order of
\* boosted_score, which is score + keyword_overlap * 0.02, and two candidates of equal
\* boosted_score are in the order they had before.
C17_RerankSortedStable ==
    (calc.op = "rerank_chunks" /\ calc.called) =>
        /\ SameCandidates(calc.chunks, calc.returned)
        /\ \A i \in 1..Len(calc.returned) :
              calc.returned[i].boosted_score =
                  calc.returned[i].score + calc.returned[i].keyword_overlap * OverlapWeight
        /\ \A i, j \in 1..Len(calc.returned) :
              i < j =>
                  /\ calc.returned[i].boosted_score >= calc.returned[j].boosted_score
                  /\ calc.returned[i].boosted_score = calc.returned[j].boosted_score =>
                         PositionIn(calc.chunks, calc.returned[i].chunk_id)
                             < PositionIn(calc.chunks, calc.returned[j].chunk_id)

\* rerank_chunks moved a candidate to the front and returned two candidates of equal
\* boosted_score whose scores differ
C17_Witness ==
    /\ calc.op = "rerank_chunks" /\ calc.called
    /\ Len(calc.returned) = MaxRankChunks
    /\ calc.returned[1].chunk_id # calc.chunks[1].chunk_id
    /\ \E i, j \in 1..Len(calc.returned) :
          /\ i < j
          /\ calc.returned[i].boosted_score = calc.returned[j].boosted_score
          /\ calc.returned[i].score # calc.returned[j].score

\* sum(c['score'] for c in chunks)
RECURSIVE SumScore(_)
SumScore(chunks) ==
    IF chunks = <<>> THEN 0 ELSE Head(chunks).score + SumScore(Tail(chunks))

\* the tier of the mean of the score values, the thresholds inclusive
TierOfScores(chunks) ==
    IF SumScore(chunks) >= HighThreshold * Len(chunks) THEN "HIGH"
    ELSE IF SumScore(chunks) >= MediumThreshold * Len(chunks) THEN "MEDIUM"
    ELSE "LOW"

\* C18: the confidence of an answer is the tier of avg, the mean of the score values of
\* its candidates, with inclusive thresholds: high when avg >= 0.80, medium when
\* avg >= 0.65, low otherwise.
C18_ConfidenceFromMeanScore ==
    calc.op = "confidence" =>
        \A i \in 1..Len(calc.answers) :
            calc.answers[i].confidence = TierOfScores(calc.answers[i].chunks)

\* low < medium < high
TierRank(confidence) ==
    CASE confidence = "LOW" -> 1 [] confidence = "MEDIUM" -> 2 [] confidence = "HIGH" -> 3

\* avg_score of the first answer < avg_score of the second
AvgBelow(first, second) ==
    SumBoosted(first) * Len(second) < SumBoosted(second) * Len(first)

\* C19: the confidence is monotone in the average: of two answers the one with the lower
\* avg_score is never the more confident one (low < medium < high).
C19_ConfidenceMonotone ==
    (calc.op = "confidence" /\ Len(calc.answers) = 2) =>
        /\ AvgBelow(calc.answers[1].chunks, calc.answers[2].chunks) =>
               TierRank(calc.answers[1].confidence) <= TierRank(calc.answers[2].confidence)
        /\ AvgBelow(calc.answers[2].chunks, calc.answers[1].chunks) =>
               TierRank(calc.answers[2].confidence) <= TierRank(calc.answers[1].confidence)

\* two answers with different numbers of candidates were given: the one of the lower
\* avg_score got medium confidence, the other high
C19_Witness ==
    /\ calc.op = "confidence" /\ Len(calc.answers) = 2
    /\ AvgBelow(calc.answers[1].chunks, calc.answers[2].chunks)
    /\ Len(calc.answers[1].chunks) # Len(calc.answers[2].chunks)
    /\ calc.answers[1].confidence = "MEDIUM"
    /\ calc.answers[2].confidence = "HIGH"

\* the turns a load returned, as role and content
LoadedTurns ==
    IF calc.op = "get_chat_history" THEN calc.returned
    ELSE [i \in 1..Len(calc.returned.messages) |->
             [role |-> calc.returned.messages[i].role,
              content |-> calc.returned.messages[i].content]]

\* the most recent limit turns of the conversation, the oldest of them first
MostRecent(coll, conversation_id, limit) ==
    LET turns == HistoryOf(coll, conversation_id)
    IN  SubSeq(turns, IF Len(turns) > limit THEN Len(turns) - limit + 1 ELSE 1, Len(turns))

\* a history was loaded
Loaded ==
    /\ calc.op \in {"get_chat_history", "get_conversation_history"}
    /\ calc.called
    /\ calc.op = "get_conversation_history" => calc.returned.status = 200

\* C20: loading the history of a conversation with a limit returns at most limit turns,
\* the most recent ones, the oldest of them first.
C20_HistoryMostRecentLimit ==
    Loaded =>
        /\ Len(LoadedTurns) <= calc.limit
        /\ LoadedTurns = MostRecent(chat_history, calc.conversation_id, calc.limit)

(***************************************************************************)
(* Properties of the request handling: validation, truncation, ownership   *)
(* and the turns stored.                                                   *)
(***************************************************************************)

\* the query is empty or holds whitespace only
Blank(query) == \A i \in 1..Len(query) : IsSpace(query[i])

\* C21: an empty or blank query is rejected before the pipeline is entered: for such a
\* query hybrid_search never returns (no embedding, no index query, no document-store
\* search), no second-chance search runs and the generation service is not called.
C21_EmptyQueryRejected ==
    (rq.outcome # "none" /\ Blank(rq.query)) =>
        /\ ~rq.searched
        /\ ~rq.second_chance
        /\ ~rq.generation_called
        /\ ~rq.fallback_invoked

\* the key at place i of the table occurs in the lowercased query and none before it does
FirstKeyIn(query, i) ==
    /\ Contains(Lower(query), context_map[i].key)
    /\ \A j \in 1..(i - 1) : ~Contains(Lower(query), context_map[j].key)

\* the text is the answer built around the canned block of context
CannedAnswer(text, context) ==
    /\ SubSeq(text, 1, Len(FallbackLead)) = FallbackLead
    /\ \E k \in 1..Len(responses) :
          /\ responses[k].context = context
          /\ Contains(text, FallbackAfterName \o responses[k].text \o FallbackNotes)

\* the text is the generic safety checklist for query
GenericAnswer(text, query) == text = GeneralLead \o query \o GeneralSteps

\* C22: the fallback responder returns the canned block of the first key of the table, in
\* table order (the injury keys as written, then the symptom keys as written), that occurs
\* in the lowercased query, and the generic safety checklist exactly when no key occurs.
C22_FallbackFirstKeyWins ==
    (calc.op = "_generate_fallback_response" /\ calc.called) =>
        /\ \A i \in 1..Len(context_map) :
              FirstKeyIn(calc.query, i) =>
                  /\ CannedAnswer(calc.returned, context_map[i].context)
                  /\ ~GenericAnswer(calc.returned, calc.query)
        /\ (\A i \in 1..Len(context_map) : ~FirstKeyIn(calc.query, i)) <=>
               GenericAnswer(calc.returned, calc.query)

\* the responder answered a query that holds two keys of different contexts, with the
\* block of the one that comes first in the table
C22_Witness ==
    /\ calc.op = "_generate_fallback_response" /\ calc.called
    /\ \E i, j \in 1..Len(context_map) :
          /\ FirstKeyIn(calc.query, i)
          /\ j > i
          /\ Contains(Lower(calc.query), context_map[j].key)
          /\ context_map[j].context # context_map[i].context
          /\ CannedAnswer(calc.returned, context_map[i].context)

\* C23: the result of hybrid_search does not depend on the order in which the expansion
\* variants are processed: in any order of the variants the candidates returned have the
\* same chunk_ids, scores and tags, in the same order.
C23_VariantOrderIrrelevant ==
    (calc.op = "hybrid_search" /\ Len(calc.returned) = 2) =>
        Brief(calc.returned[2]) = Brief(calc.returned[1])


\* C24: every AnswerResult returned for a request with top_k = k >= 1 has chunks_found <= k,
\* whichever retrieval stage supplied the candidates, the second-chance stage included
C24_ChunksFoundAtMostTopK ==
    (rq.outcome = "returned" /\ rq.top_k >= 1) => rq.result.chunks_found <= rq.top_k


\* the documents of coll that belong to conversation cid
OfConversation(coll, cid) == SelectSeq(coll, LAMBDA d : d.conversation_id = cid)

\* the request in progress names a stored conversation that another user owns
ForeignConversation ==
    /\ rq.outcome # "none"
    /\ rq.conversation_id # None
    /\ \E i \in 1..Len(StoredConversations) :
          /\ StoredConversations[i].conversation_id = rq.conversation_id
          /\ StoredConversations[i].user_id # rq.user

\* C25: a query that carries the conversation_id of a conversation owned by a different
\* user (for a guest: by any user) neither reads its stored turns nor appends turns to it
\* nor updates its document
C25_ForeignConversationUntouched ==
    ForeignConversation =>
        /\ rq.chat_history = <<>>
        /\ OfConversation(chat_history, rq.conversation_id)
              = OfConversation(StoredChatHistory, rq.conversation_id)
        /\ OfConversation(conversations, rq.conversation_id)
              = OfConversation(StoredConversations, rq.conversation_id)


\* the /api/query call of an authenticated user has ended
AuthenticatedCallEnded == qpc = "idle" /\ rq.outcome = "returned" /\ rq.user # Guest

\* C26: after the /api/query calls of an authenticated user, message_count of every
\* conversation equals the number of chat-history turns stored for that conversation
C26_MessageCountIsTurnCount ==
    AuthenticatedCallEnded =>
        \A i \in 1..Len(conversations) :
            /\ "message_count" \in DOMAIN conversations[i]
            /\ conversations[i].message_count
                  = Len(OfConversation(chat_history, conversations[i].conversation_id))


\* the conversation of the request did not exist before the request
NewConversationOfRequest ==
    /\ rq.conversation_id # None
    /\ OfConversation(StoredConversations, rq.conversation_id) = <<>>

\* C27: after an authenticated user's first successfully answered query in a new
\* conversation, the stored conversation document carries that user's user_id, a title
\* and a created_at (what get_conversations and get_conversation_history select and show)
C27_NewConversationOwned ==
    (AuthenticatedCallEnded /\ http.status = 200 /\ NewConversationOfRequest) =>
        \E i \in 1..Len(conversations) :
            /\ conversations[i].conversation_id = rq.conversation_id
            /\ {"user_id", "title", "created_at"} \subseteq DOMAIN conversations[i]
            /\ conversations[i].user_id = rq.user


\* answer_query was called with a conversation_id and has returned to query_endpoint
AnswerQueryReturned == qpc = "endpoint_result" /\ rq.conversation_id # None

\* C28: every answer_query call made with a conversation_id appends exactly one user
\* turn and one assistant turn to the history of that conversation, on the fallback
\* path as on the generation path
C28_TwoTurnsOnEveryPath ==
    AnswerQueryReturned =>
        LET before == OfConversation(StoredChatHistory, rq.conversation_id)
            after == OfConversation(chat_history, rq.conversation_id)
        IN  /\ Len(after) = Len(before) + 2
            /\ SubSeq(after, 1, Len(before)) = before
            /\ after[Len(before) + 1].role = "user"
            /\ after[Len(before) + 2].role = "assistant"


\* C29: every candidate answer_query passes to the generation step is tagged
\* keyword_fallback or has a score of at least the min_score in force for the query;
\* this includes the candidates tagged semantic_expanded_final
C29_GeneratedFromQualifying ==
    rq.generation_called =>
        \A i \in 1..Len(rq.chunks) :
            \/ rq.chunks[i].search_method = "keyword_fallback"
            \/ rq.chunks[i].score >= rq.hybrid_min_score

\* C29, amended: every candidate answer_query passes to the generation step is tagged
\* keyword_fallback or semantic_expanded_final, or has a score of at least the min_score
\* hybrid_search ran with; the second-chance candidates are passed on whatever their score
C29_GeneratedFromQualifyingOrSecondChance ==
    rq.generation_called =>
        \A i \in 1..Len(rq.chunks) :
            \/ rq.chunks[i].search_method \in {"keyword_fallback", "semantic_expanded_final"}
            \/ rq.chunks[i].score >= rq.hybrid_min_score

\* an answer was generated from second-chance candidates that score below min_score
C29_Witness ==
    /\ rq.generation_called
    /\ \E i \in 1..Len(rq.chunks) :
          /\ rq.chunks[i].search_method = "semantic_expanded_final"
          /\ rq.chunks[i].score < rq.hybrid_min_score


\* caller p's create_conversation call evicted conversation cid: the store held it when
\* the call began and holds it no more
EvictedBy(p, cid) ==
    /\ cc[p].op = "create"
    /\ DuplicateKey(cc[p].entry_conversations, cid)
    /\ ~DuplicateKey(conversations, cid)

\* the turns of conversation cid in the store that were saved while manage_conversation_limit
\* ran for caller p: after the call began and before the timestamp taken on its return
SavedDuringEviction(p, cid) ==
    SelectSeq(chat_history,
              LAMBDA d : /\ d.conversation_id = cid
                         /\ \A j \in 1..Len(cc[p].entry_chat_history) :
                               cc[p].entry_chat_history[j] # d
                         /\ d.timestamp < cc[p].current_timestamp)

\* C30: when manage_conversation_limit evicts a conversation while another request
\* appends turns to it with save_chat_messages, then once both have finished no turn of
\* the evicted conversation remains in the chat history
C30_NoTurnOfEvictedConversation ==
    \A p, q \in Procs :
        (/\ p # q
         /\ CcIdle(p) /\ CcIdle(q)
         /\ cc[q].op = "update"
         /\ EvictedBy(p, cc[q].conversation_id)) =>
            SavedDuringEviction(p, cc[q].conversation_id) = <<>>

====
